---- MODULE Spec2Model ----
(***************************************************************************)
(* A model of the clustering-and-verification engine (CheckerA), of the    *)
(* cached, rate-limited geocoder (GeoCoder) and of the hotspot detecter    *)
(* (DetecterA and the scheduler that runs it) of SIHP-IntelRisk.           *)
(*                                                                         *)
(* Strings are tuples of ASCII codes, so that lower(), strip(), split()    *)
(* and the token-set ratio are computed, not assumed.  Python's None is    *)
(* the tuple <<-1>>, which is no string.  A confidence is kept in          *)
(* hundredths (0.9 is 90), an absent one is -1.  Time is kept in ticks of  *)
(* 1/TicksPerSecond second.  A latitude or longitude is kept in            *)
(* thousandths of a degree, a distance in metres, an emotion score in      *)
(* hundredths, and a confidence-weighted score (a product of two           *)
(* hundredths) in ten-thousandths.                                         *)
(***************************************************************************)
EXTENDS Integers, Sequences, FiniteSets, TLC

VARIABLES
    \* ---- CheckerA.run on one batch ----
    input,              \* the batch as it was handed to run (never changed)
    reports,            \* the Report objects of the batch, as they are now
    clusters,           \* _create_clusters' list: each cluster a list of batch indexes
    verified_reports,   \* process_clusters' list: batch indexes of the emitted objects
    processed,          \* clusters process_clusters' loop has handled so far
    pc,                 \* "create" | "process" | "done"
    \* ---- one GeoCoder instance ----
    clock,              \* time.time(), in ticks
    last_call_time,     \* GeoCoder.last_call_time, in ticks
    cache,              \* lru_cache of geocode: entries, most recently used first
    requests,           \* issue times of the outbound requests, in order
    recency,            \* every location geocode was called with, most recent first
    returned,           \* location -> the value geocode last returned for it, and why
    call,               \* the last geocode call: what it was given and what it did
    \* ---- the detection scheduler and DetecterA over the hotspot tables ----
    hotspots,           \* the human_hotspots and disaster_hotspots rows
    composite_hotspots, \* the composite_hotspots rows
    scheduled,          \* detection_scheduler's human_list + disaster_list (row indexes)
    tasks,              \* generate_map_json_with_persistence's humans + disasters
    points,             \* assemble_unified_points' list
    groups,             \* cluster_points' groups, in label order: lists of point indexes
    output_list,        \* the outputs of the groups handled so far
    cursor,             \* hotspots resolved / groups handled so far in the running loop
    dpc,                \* where the pass is
    resolution,         \* row index -> how its geocode call of this pass went
    consumed,           \* rows that were in a group that was created or merged
    handled,            \* the groups handled in this pass: what went in and what came out
    \* ---- aggregation operations run at the same time over one store ----
    ops,                \* per operation: its group, where it is, the row it read
    \* ---- the workers of the orchestrator, the reports table and the streams ----
    report_rows,        \* the reports rows, row k having id k
    streams,            \* stream -> the report ids published on it, in order
    delivered,          \* stream -> how many of its events its consumer group was given
    cancels             \* how many times the task of the scheduler was cancelled

checkerVars == <<input, reports, clusters, verified_reports, processed, pc>>
geoVars == <<clock, last_call_time, cache, requests, recency, returned, call>>
detVars == <<hotspots, composite_hotspots, scheduled, tasks, points, groups,
             output_list, cursor, dpc, resolution, consumed, handled>>
callVars == <<ops>>
workerVars == <<report_rows, streams, delivered>>
pipeVars == <<ops, report_rows, streams, delivered, cancels>>
vars == <<input, reports, clusters, verified_reports, processed, pc,
          clock, last_call_time, cache, requests, recency, returned, call,
          hotspots, composite_hotspots, scheduled, tasks, points, groups,
          output_list, cursor, dpc, resolution, consumed, handled,
          ops, report_rows, streams, delivered, cancels>>

----------------------------------------------------------------------------
(* Bounds *)

MaxBatch == 3           \* longest batch handed to run
MaxCalls == 3           \* geocode calls on the instance
StartClock == 10        \* time.time() when the instance is built, in ticks
MaxClock == 5           \* the clock is not followed past StartClock + MaxClock ticks
MaxLatency == 1         \* longest an outbound request takes, in ticks
CacheCapacity == 2      \* entries the lru_cache holds (maxsize=1000, scaled down)
TicksPerSecond == 2     \* clock resolution
MaxRows == 2            \* rows of the hotspot tables
\* how many times the task of the scheduler is cancelled at most
MaxCancels == 1
MaxPoints == 3          \* points handed to cluster_points

----------------------------------------------------------------------------
(* Python values *)

None == <<-1>>

\* the value of what was never computed (history)
Never == <<-2>>

Truthy(s) == s # None /\ s # <<>>

Max(a, b) == IF a >= b THEN a ELSE b

Abs(a) == IF a >= 0 THEN a ELSE -a

RECURSIVE SumSeq(_)
SumSeq(s) == IF s = <<>> THEN 0 ELSE Head(s) + SumSeq(Tail(s))

Range(s) == {s[k] : k \in DOMAIN s}

(* str methods, on ASCII *)

IsSpace(c) == c \in {9, 10, 11, 12, 13, 32}

lower(s) == [k \in DOMAIN s |-> IF s[k] \in 65..90 THEN s[k] + 32 ELSE s[k]]

RECURSIVE lstrip(_)
lstrip(s) == IF s # <<>> /\ IsSpace(Head(s)) THEN lstrip(Tail(s)) ELSE s

RECURSIVE rstrip(_)
rstrip(s) ==
    IF s # <<>> /\ IsSpace(s[Len(s)]) THEN rstrip(SubSeq(s, 1, Len(s) - 1)) ELSE s

strip(s) == rstrip(lstrip(s))

replace_space(s) == [k \in DOMAIN s |-> IF s[k] = 32 THEN 95 ELSE s[k]]

RECURSIVE SplitFrom(_, _, _)
SplitFrom(s, cur, acc) ==
    IF s = <<>> THEN (IF cur = <<>> THEN acc ELSE Append(acc, cur))
    ELSE IF IsSpace(Head(s))
         THEN SplitFrom(Tail(s), <<>>, IF cur = <<>> THEN acc ELSE Append(acc, cur))
         ELSE SplitFrom(Tail(s), Append(cur, Head(s)), acc)

split(s) == SplitFrom(s, <<>>, <<>>)

RECURSIVE LexLess(_, _)
LexLess(a, b) ==
    IF a = <<>> THEN b # <<>>
    ELSE IF b = <<>> THEN FALSE
    ELSE IF Head(a) # Head(b) THEN Head(a) < Head(b)
    ELSE LexLess(Tail(a), Tail(b))

RECURSIVE sorted(_)
sorted(S) ==
    IF S = {} THEN <<>>
    ELSE LET m == CHOOSE x \in S : \A y \in S \ {x} : LexLess(x, y)
         IN  <<m>> \o sorted(S \ {m})

RECURSIVE join(_)
join(toks) ==
    IF toks = <<>> THEN <<>>
    ELSE IF Len(toks) = 1 THEN toks[1]
    ELSE toks[1] \o <<32>> \o join(Tail(toks))

----------------------------------------------------------------------------
(* rapidfuzz.fuzz.token_set_ratio, as similarity() calls it *)

\* One row of the longest-common-subsequence table: row[j+1] is the LCS length of
\* the prefix of a ending at character c and the first j characters of b.
RECURSIVE LcsRow(_, _, _, _)
LcsRow(prev, c, b, acc) ==
    LET j == Len(acc)
    IN  IF j > Len(b) THEN acc
        ELSE IF j = 0 THEN LcsRow(prev, c, b, <<0>>)
        ELSE LcsRow(prev, c, b,
                    Append(acc, IF b[j] = c THEN prev[j] + 1
                                ELSE Max(prev[j + 1], acc[j])))

RECURSIVE LcsRows(_, _, _)
LcsRows(a, b, prev) ==
    IF a = <<>> THEN prev[Len(b) + 1]
    ELSE LcsRows(Tail(a), b, LcsRow(prev, Head(a), b, <<>>))

lcs_length(a, b) == LcsRows(a, b, [j \in 1..(Len(b) + 1) |-> 0])

indel_distance(a, b) == Len(a) + Len(b) - 2 * lcs_length(a, b)

\* floor(100 - 100 * dist / lensum); every threshold it is compared with is an integer
norm_distance(dist, lensum) ==
    IF lensum = 0 THEN 100 ELSE (100 * (lensum - dist)) \div lensum

token_set_ratio(s1, s2) ==
    LET tokens_a == Range(split(s1))
        tokens_b == Range(split(s2))
        intersect == tokens_a \cap tokens_b
        diff_ab == tokens_a \ tokens_b
        diff_ba == tokens_b \ tokens_a
        diff_ab_joined == join(sorted(diff_ab))
        diff_ba_joined == join(sorted(diff_ba))
        ab_len == Len(diff_ab_joined)
        ba_len == Len(diff_ba_joined)
        sect_len == Len(join(sorted(intersect)))
        sep == IF sect_len # 0 THEN 1 ELSE 0
        sect_ab_len == sect_len + sep + ab_len
        sect_ba_len == sect_len + sep + ba_len
        result == norm_distance(indel_distance(diff_ab_joined, diff_ba_joined),
                                sect_ab_len + sect_ba_len)
        sect_ab_ratio == norm_distance(sep + ab_len, sect_len + sect_ab_len)
        sect_ba_ratio == norm_distance(sep + ba_len, sect_len + sect_ba_len)
    IN  IF tokens_a = {} \/ tokens_b = {} THEN 0
        ELSE IF intersect # {} /\ (diff_ab = {} \/ diff_ba = {}) THEN 100
        ELSE IF sect_len = 0 THEN result
        ELSE Max(result, Max(sect_ab_ratio, sect_ba_ratio))

----------------------------------------------------------------------------
(* datetime.strptime(t, fmt) *)

IsDigit(c) == c \in 48..57

\* the digits of t from position k on, n of them at most
RECURSIVE Digits(_, _, _)
Digits(t, k, n) ==
    IF n = 0 \/ k > Len(t) \/ ~IsDigit(t[k]) THEN <<>>
    ELSE <<t[k]>> \o Digits(t, k + 1, n - 1)

\* int() of a run of digits
RECURSIVE ToInt(_)
ToInt(ds) ==
    IF ds = <<>> THEN 0
    ELSE ToInt(SubSeq(ds, 1, Len(ds) - 1)) * 10 + (ds[Len(ds)] - 48)

\* _strptime's regular expression of a directive, on the digits it can take:
\* %Y \d\d\d\d, %m 1[0-2]|0[1-9]|[1-9], %d 3[0-1]|[1-2]\d|0[1-9]|[1-9],
\* %H 2[0-3]|[0-1]\d|\d, %M [0-5]\d|\d, %S 6[0-1]|[0-5]\d|\d
directive_takes(d, ds) ==
    CASE d = 89 -> Len(ds) = 4
      [] d = 109 -> Len(ds) >= 1 /\ ToInt(ds) \in 1..12
      [] d = 100 -> Len(ds) >= 1 /\ ToInt(ds) \in 1..31
      [] d = 72 -> Len(ds) >= 1 /\ ToInt(ds) <= 23
      [] d = 77 -> Len(ds) >= 1 /\ ToInt(ds) <= 59
      [] d = 83 -> Len(ds) >= 1 /\ ToInt(ds) <= 61
      [] OTHER -> FALSE

\* re.IGNORECASE
fold(c) == IF c \in 65..90 THEN c + 32 ELSE c

\* the match of t from position k on against the rest of the format: the values of
\* the directives in order, or <<>> when t does not match or data remains.  A
\* directive takes the digits up to the next character of the format, which is no
\* digit; %d also takes a space and a digit from 1 to 9.
RECURSIVE regex_match(_, _, _, _)
regex_match(t, k, format, found) ==
    IF format = <<>> THEN (IF k = Len(t) + 1 THEN found ELSE <<>>)
    ELSE IF Head(format) = 37
    THEN LET d == format[2]
             ds == Digits(t, k, IF d = 89 THEN 4 ELSE 2)
         IN  IF directive_takes(d, ds)
             THEN regex_match(t, k + Len(ds), SubSeq(format, 3, Len(format)),
                              Append(found, ToInt(ds)))
             ELSE IF d = 100 /\ k < Len(t) /\ t[k] = 32 /\ t[k + 1] \in 49..57
             THEN regex_match(t, k + 2, SubSeq(format, 3, Len(format)),
                              Append(found, t[k + 1] - 48))
             ELSE <<>>
    ELSE IF k <= Len(t) /\ fold(t[k]) = fold(Head(format))
    THEN regex_match(t, k + 1, Tail(format), found)
    ELSE <<>>

IsLeap(y) == (y % 4 = 0 /\ y % 100 # 0) \/ y % 400 = 0

DaysInMonth(y, m) ==
    IF m = 2 THEN (IF IsLeap(y) THEN 29 ELSE 28)
    ELSE IF m \in {4, 6, 9, 11} THEN 30 ELSE 31

\* days since 1970-01-01 of a proleptic Gregorian date
DaysFromCivil(y, m, d) ==
    LET yy == IF m <= 2 THEN y - 1 ELSE y
        era == yy \div 400
        yoe == yy - era * 400
        mp == IF m > 2 THEN m - 3 ELSE m + 9
        doy == (153 * mp + 2) \div 5 + d - 1
        doe == yoe * 365 + yoe \div 4 - yoe \div 100 + doy
    IN  era * 146097 + doe - 719468

\* strptime returns a datetime: t is a str (None raises TypeError), the format
\* matches all of it, and datetime() takes the values (year from 1, the day within
\* the month, the second up to 59); otherwise it raises
WellFormed(t, format) ==
    /\ t # None
    /\ LET f == regex_match(t, 1, format, <<>>)
       IN  /\ f # <<>>
           /\ f[1] >= 1
           /\ f[3] <= DaysInMonth(f[1], f[2])
           /\ f[6] <= 59

\* the datetime, as its day since 1970-01-01 and its second of the day; meaningful
\* when WellFormed
strptime(t, format) ==
    LET f == regex_match(t, 1, format, <<>>)
    IN  <<DaysFromCivil(f[1], f[2], f[3]), f[4] * 3600 + f[5] * 60 + f[6]>>

\* (dt1 - dt2).total_seconds(); a difference beyond 24000 days is counted as 24000
\* days
total_seconds(dt1, dt2) ==
    LET days == dt1[1] - dt2[1]
    IN  (IF days > 24000 THEN 24000 ELSE IF days < -24000 THEN -24000 ELSE days) * 86400
            + (dt1[2] - dt2[2])

----------------------------------------------------------------------------
(* CheckerA: configuration *)

\* "official_news_agency", "government_official", "well_known_media", "red_cross",
\* "un_official_disaster_org"
trusted_sources ==
    { <<111,102,102,105,99,105,97,108,95,110,101,119,115,95,97,103,101,110,99,121>>,
      <<103,111,118,101,114,110,109,101,110,116,95,111,102,102,105,99,105,97,108>>,
      <<119,101,108,108,95,107,110,111,119,110,95,109,101,100,105,97>>,
      <<114,101,100,95,99,114,111,115,115>>,
      <<117,110,95,111,102,102,105,99,105,97,108,95,100,105,115,97,115,116,101,114,95,111,114,103>> }

event_type_similarity_threshold == 60
location_similarity_threshold == 60
description_similarity_threshold == 60
time_window_seconds == 7200

\* "unknown", "verified"
STR_unknown == <<117,110,107,110,111,119,110>>
STR_verified == <<118,101,114,105,102,105,101,100>>

(* CheckerA: helpers *)

normalize_source(source) ==
    IF ~Truthy(source) THEN None ELSE replace_space(lower(strip(source)))

is_source_trusted(source) ==
    LET norm == normalize_source(source)
    IN  Truthy(norm) /\ norm \in trusted_sources

similarity(a, b) ==
    IF ~Truthy(a) \/ ~Truthy(b) THEN 0 ELSE token_set_ratio(lower(a), lower(b))

\* "%Y-%m-%dT%H:%M:%SZ", line 76
fmt == <<37,89,45,37,109,45,37,100,84,37,72,58,37,77,58,37,83,90>>

\* lines 75-83
time_within_window_before(t1, t2) ==
    IF WellFormed(t1, fmt) /\ WellFormed(t2, fmt)
    THEN Abs(total_seconds(strptime(t1, fmt), strptime(t2, fmt))) < time_window_seconds
    ELSE FALSE

time_within_window(t1, t2) ==
    IF WellFormed(t1, fmt) /\ WellFormed(t2, fmt)
    THEN Abs(total_seconds(strptime(t1, fmt), strptime(t2, fmt))) <= time_window_seconds
    ELSE FALSE

(* CheckerA._create_clusters *)

\* lines 95-120: the fields present on both sides, and those of them that match
total_fields(report, rep) ==
    (IF Truthy(report.event_type) /\ Truthy(rep.event_type) THEN 1 ELSE 0)
  + (IF Truthy(report.location) /\ Truthy(rep.location) THEN 1 ELSE 0)
  + (IF Truthy(report.timestamp) /\ Truthy(rep.timestamp) THEN 1 ELSE 0)
  + (IF Truthy(report.description) /\ Truthy(rep.description) THEN 1 ELSE 0)

match_count(report, rep) ==
    (IF /\ Truthy(report.event_type) /\ Truthy(rep.event_type)
        /\ similarity(report.event_type, rep.event_type)
               >= event_type_similarity_threshold
     THEN 1 ELSE 0)
  + (IF /\ Truthy(report.location) /\ Truthy(rep.location)
        /\ similarity(report.location, rep.location) >= location_similarity_threshold
     THEN 1 ELSE 0)
  + (IF /\ Truthy(report.timestamp) /\ Truthy(rep.timestamp)
        /\ time_within_window(report.timestamp, rep.timestamp)
     THEN 1 ELSE 0)
  + (IF /\ Truthy(report.description) /\ Truthy(rep.description)
        /\ similarity(report.description, rep.description)
               >= description_similarity_threshold
     THEN 1 ELSE 0)

\* line 123
joins_majority(report, rep) ==
    /\ total_fields(report, rep) > 0
    /\ match_count(report, rep) >= Max(1, total_fields(report, rep) \div 2)

joins(report, rep) ==
    /\ total_fields(report, rep) > 0
    /\ match_count(report, rep) >= Max(2, total_fields(report, rep) \div 2)

\* lines 90-125: the first cluster whose first report the report joins, 0 for none
matched_cluster_last(report, cls, reps) ==
    LET hits == {c \in DOMAIN cls : joins(report, reps[cls[c][Len(cls[c])]])}
    IN  IF hits = {} THEN 0 ELSE CHOOSE c \in hits : \A d \in hits : c <= d

matched_cluster(report, cls, reps) ==
    LET hits == {c \in DOMAIN cls : joins(report, reps[cls[c][1]])}
    IN  IF hits = {} THEN 0 ELSE CHOOSE c \in hits : \A d \in hits : c <= d

\* lines 127-130: the clusters once report i is put where matched says
place_twice(cls, matched, i) ==
    IF matched = 0 THEN Append(cls, <<i>>)
    ELSE Append([cls EXCEPT ![matched] = Append(@, i)], <<i>>)

place(cls, matched, i) ==
    IF matched = 0 THEN Append(cls, <<i>>)
    ELSE [cls EXCEPT ![matched] = Append(@, i)]

\* reports the outer loop has placed so far
placed == SumSeq([c \in DOMAIN clusters |-> Len(clusters[c])])

\* one pass of the loop of line 89, for a report that matches no cluster
StartCluster ==
    /\ pc = "create"
    /\ placed < Len(reports)
    /\ matched_cluster(reports[placed + 1], clusters, reports) = 0
    /\ clusters' = place(clusters, 0, placed + 1)
    /\ UNCHANGED <<input, reports, verified_reports, processed, pc>>
    /\ UNCHANGED <<geoVars, detVars, pipeVars>>

\* one pass of the loop of line 89, for a report that matches a cluster
JoinCluster ==
    /\ pc = "create"
    /\ placed < Len(reports)
    /\ LET m == matched_cluster(reports[placed + 1], clusters, reports)
       IN  /\ m # 0
           /\ clusters' = place(clusters, m, placed + 1)
    /\ UNCHANGED <<input, reports, verified_reports, processed, pc>>
    /\ UNCHANGED <<geoVars, detVars, pipeVars>>

\* line 138; run hands the clusters to process_clusters (line 174)
CreateClustersReturn ==
    /\ pc = "create"
    /\ placed = Len(reports)
    /\ pc' = "process"
    /\ UNCHANGED <<input, reports, clusters, verified_reports, processed>>
    /\ UNCHANGED <<geoVars, detVars, pipeVars>>

----------------------------------------------------------------------------
(* CheckerA.process_clusters *)

trusted_count(cluster, reps) ==
    Cardinality({k \in DOMAIN cluster : is_source_trusted(reps[cluster[k]].source)})

\* lines 150-159: TRUE when the cluster is skipped
rejects_untrusted(trusted, total) == trusted = 0

rejects_rumor(trusted, total) == trusted < 2 /\ total < 3

rejects(trusted, total) ==
    IF trusted >= 1 /\ total = 1 THEN FALSE
    ELSE IF total >= 2 THEN FALSE
    ELSE trusted = 0 /\ total < 2

\* the key of line 161: r.confidence or 0
confidence_key(r) == IF r.confidence = -1 THEN 0 ELSE r.confidence

\* line 161: max keeps the first of the members with the greatest key
RECURSIVE max_from(_, _, _, _)
max_from(cluster, reps, k, best) ==
    IF k > Len(cluster) THEN best
    ELSE max_from(cluster, reps, k + 1,
                  IF confidence_key(reps[cluster[k]]) > confidence_key(reps[best])
                  THEN cluster[k] ELSE best)

RECURSIVE max_from_last(_, _, _, _)
max_from_last(cluster, reps, k, best) ==
    IF k > Len(cluster) THEN best
    ELSE max_from_last(cluster, reps, k + 1,
                  IF confidence_key(reps[cluster[k]]) >= confidence_key(reps[best])
                  THEN cluster[k] ELSE best)

best_report_last(cluster, reps) == max_from_last(cluster, reps, 2, cluster[1])

best_report(cluster, reps) == max_from(cluster, reps, 2, cluster[1])

\* lines 162-164
mark_keep_reporter(r) == [r EXCEPT !.veracity_flag = STR_verified]

mark_verified(r) ==
    [r EXCEPT !.reporter = IF ~Truthy(@) THEN STR_unknown ELSE @,
              !.veracity_flag = STR_verified]

\* lines 161-166: what the loop does to the Report objects for an accepted cluster
verify_cluster_all(reps, cluster) ==
    [i \in DOMAIN reps |->
        IF i \in Range(cluster) THEN mark_verified(reps[i]) ELSE reps[i]]

verify_cluster(reps, cluster) ==
    [reps EXCEPT ![best_report(cluster, reps)] = mark_verified(@)]

\* one pass of the loop of line 143, for a cluster that is skipped (line 159)
RejectCluster ==
    /\ pc = "process"
    /\ processed < Len(clusters)
    /\ LET cluster == clusters[processed + 1]
       IN  rejects(trusted_count(cluster, reports), Len(cluster))
    /\ processed' = processed + 1
    /\ UNCHANGED <<input, reports, clusters, verified_reports, pc>>
    /\ UNCHANGED <<geoVars, detVars, pipeVars>>

\* one pass of the loop of line 143, for a cluster that is kept (lines 161-167)
AcceptCluster ==
    /\ pc = "process"
    /\ processed < Len(clusters)
    /\ LET cluster == clusters[processed + 1]
       IN  /\ ~rejects(trusted_count(cluster, reports), Len(cluster))
           /\ reports' = verify_cluster(reports, cluster)
           /\ verified_reports' = Append(verified_reports, best_report(cluster, reports))
    /\ processed' = processed + 1
    /\ UNCHANGED <<input, clusters, pc>>
    /\ UNCHANGED <<geoVars, detVars, pipeVars>>

\* line 169
ProcessClustersReturn ==
    /\ pc = "process"
    /\ processed = Len(clusters)
    /\ pc' = "done"
    /\ UNCHANGED <<input, reports, clusters, verified_reports, processed>>
    /\ UNCHANGED <<geoVars, detVars, pipeVars>>

NextChecker ==
    \/ StartCluster
    \/ JoinCluster
    \/ CreateClustersReturn
    \/ RejectCluster
    \/ AcceptCluster
    \/ ProcessClustersReturn

----------------------------------------------------------------------------
(* GeoCoder.geocode *)

\* "Paris", "Rome", "Oslo", and a location of two spaces
STR_Paris == <<80,97,114,105,115>>
STR_Rome == <<82,111,109,101>>
STR_Oslo == <<79,115,108,111>>
STR_spaces == <<32,32>>

\* the texts geocode is called with (_process_hotspot passes "" for no location)
Locations == {<<>>, STR_spaces, STR_Paris, STR_Rome, STR_Oslo}

\* what the geocoding service can answer: coordinates, an empty list, or a failure
\* (a transport error, a timeout, an HTTP error status, an unreadable body)
Coordinates == {<<48, 2>>, <<41, 12>>}
Responses ==
    {[kind |-> "found", at |-> c] : c \in Coordinates}
        \cup {[kind |-> "empty", at |-> None], [kind |-> "fail", at |-> None]}

\* line 81
blank(location) == ~Truthy(location) \/ strip(location) = <<>>

\* lines 81-108, the function under the cache: what a call at time now does when
\* the limiter holds last, the request takes latency and the service answers response
geocode_limit_first(location, now, last, latency, response) ==
    LET wait == IF now - last < TicksPerSecond THEN TicksPerSecond - (now - last) ELSE 0
    IN  IF blank(location)
        THEN [result |-> None, last_call_time |-> now, sent |-> FALSE,
              issued_at |-> now + wait, done_at |-> now + wait]
        ELSE [result |-> IF response.kind = "found" THEN response.at ELSE None,
              last_call_time |-> now, sent |-> TRUE,
              issued_at |-> now + wait, done_at |-> now + wait + latency]

geocode(location, now, last, latency, response) ==
    IF blank(location)
    THEN [result |-> None, last_call_time |-> last, sent |-> FALSE,
          issued_at |-> now, done_at |-> now]
    ELSE LET wait == IF now - last < TicksPerSecond
                     THEN TicksPerSecond - (now - last) ELSE 0
         IN  [result |-> IF response.kind = "found" THEN response.at ELSE None,
              last_call_time |-> now, sent |-> TRUE,
              issued_at |-> now + wait, done_at |-> now + wait + latency]

(* functools.lru_cache(maxsize) around geocode, line 79 *)

cached(entries, key) == \E k \in DOMAIN entries : entries[k].key = key

lookup(entries, key) ==
    entries[CHOOSE k \in DOMAIN entries : entries[k].key = key].value

without(entries, key) == SelectSeq(entries, LAMBDA e : e.key # key)

\* a hit moves the entry to the front
touch(entries, key) ==
    <<[key |-> key, value |-> lookup(entries, key)]>> \o without(entries, key)

\* a miss stores the result in front and drops the least recently used entry
store_results_only(entries, key, value) ==
    IF value = None THEN entries
    ELSE SubSeq(<<[key |-> key, value |-> value]>> \o entries, 1,
                IF Len(entries) + 1 > CacheCapacity
                THEN CacheCapacity ELSE Len(entries) + 1)

store(entries, key, value) ==
    SubSeq(<<[key |-> key, value |-> value]>> \o entries, 1,
           IF Len(entries) + 1 > CacheCapacity THEN CacheCapacity ELSE Len(entries) + 1)

\* history: the locations called so far, the most recent first, each once
used(seq, location) == <<location>> \o SelectSeq(seq, LAMBDA l : l # location)

\* geocode(location) answered from the cache
CacheHit(location) ==
    /\ call.count < MaxCalls
    /\ cached(cache, location)
    /\ cache' = touch(cache, location)
    /\ call' = [count |-> call.count + 1, location |-> location,
                result |-> lookup(cache, location), hit |-> TRUE, sent |-> FALSE]
    /\ returned' = [returned EXCEPT ![location].value = lookup(cache, location)]
    /\ recency' = used(recency, location)
    /\ UNCHANGED <<clock, last_call_time, requests>>
    /\ UNCHANGED <<checkerVars, detVars, pipeVars>>

\* geocode(location) run: the wait, the request and its answer, the result stored
CacheMiss(location, latency, response) ==
    /\ call.count < MaxCalls
    /\ clock <= StartClock + MaxClock
    /\ ~cached(cache, location)
    /\ LET r == geocode(location, clock, last_call_time, latency, response)
       IN  /\ last_call_time' = r.last_call_time
           /\ requests' = IF r.sent THEN Append(requests, r.issued_at) ELSE requests
           /\ clock' = r.done_at
           /\ cache' = store(cache, location, r.result)
           /\ call' = [count |-> call.count + 1, location |-> location,
                       result |-> r.result, hit |-> FALSE, sent |-> r.sent]
           /\ returned' = [returned EXCEPT ![location] =
                              [value |-> r.result,
                               cause |-> IF r.sent THEN response.kind ELSE "blank"]]
    /\ recency' = used(recency, location)
    /\ UNCHANGED <<checkerVars, detVars, pipeVars>>

\* time passes between two calls
Tick ==
    /\ clock < StartClock + MaxClock
    /\ clock' = clock + 1
    /\ UNCHANGED <<last_call_time, cache, requests, recency, returned, call>>
    /\ UNCHANGED <<checkerVars, detVars, pipeVars>>

NextGeo ==
    \/ \E location \in Locations : CacheHit(location)
    \/ \E location \in Locations, latency \in 0..MaxLatency, response \in Responses :
           CacheMiss(location, latency, response)
    \/ Tick

----------------------------------------------------------------------------
(* haversine_distance *)

\* the largest r in lo..hi with r * r <= n
RECURSIVE SqrtFrom(_, _, _)
SqrtFrom(n, lo, hi) ==
    IF lo = hi THEN lo
    ELSE LET mid == (lo + hi + 1) \div 2
         IN  IF mid * mid <= n THEN SqrtFrom(n, mid, hi) ELSE SqrtFrom(n, lo, mid - 1)

\* math.sqrt, rounded down
sqrt(n) == SqrtFrom(n, 0, 46340)

\* math.radians of thousandths of a degree, in ten-thousandths of a radian
radians(mdeg) == (mdeg * 17453) \div 100000

\* math.cos of a latitude, in ten-thousandths, by its series up to the eighth power
\* (within 0.0003 of the cosine for latitudes up to 75 degrees)
cos(mdeg) ==
    LET x == radians(Abs(mdeg))
        t2 == (x * x) \div 10000
        t4 == (t2 * t2) \div 10000
        t6 == (t4 * t2) \div 10000
        t8 == (t6 * t2) \div 10000
    IN  10000 - (t2 \div 2) + (t4 \div 24) - (t6 \div 720) + (t8 \div 40320)

\* Earth radius in km, line 119
r == 6371

\* a difference of coordinates; one beyond 0.3 degree is counted as 0.3 degree
clip(d) == IF Abs(d) > 300 THEN 300 ELSE Abs(d)

\* lines 112-120, in metres.  For the differences kept, under a third of a degree,
\* sin(x / 2) is x / 2 and asin(y) is y to 5 parts in a million, so that
\* c = 2 asin(sqrt(a)) is sqrt(dlat^2 + cos(lat1) cos(lat2) dlon^2).  Places
\* further apart get a lower bound of their distance, which is over 8 km for
\* latitudes up to 75 degrees.
haversine_distance(c1, c2) ==
    LET dlat == clip(c2[1] - c1[1])
        dlon == clip(c2[2] - c1[2])
        cc == (cos(c1[1]) * cos(c2[1])) \div 10000
        a == 10000 * dlat * dlat + cc * dlon * dlon
        c == sqrt(a)
    IN  (((c * r) \div 10000) * 17453) \div 10000

----------------------------------------------------------------------------
(* DetecterA.assemble_unified_points and _process_hotspot *)

\* "Nation", "Doree", "Vincennes": three places of Paris
STR_Nation == <<78,97,116,105,111,110>>
STR_Doree == <<68,111,114,101,101>>
STR_Vincennes == <<86,105,110,99,101,110,110,101,115>>

\* where the geocoding service puts a place when it finds it (lat, lon)
Gazetteer(location) ==
    CASE location = STR_Paris -> <<48857, 2352>>
      [] location = STR_Nation -> <<48848, 2396>>
      [] location = STR_Doree -> <<48835, 2406>>
      [] location = STR_Vincennes -> <<48848, 2439>>
      [] location = STR_Rome -> <<41903, 12496>>
      [] OTHER -> <<59913, 10752>>

\* what the service can answer to a request for a location
Answers(location) ==
    {[kind |-> "found", at |-> Gazetteer(location)],
     [kind |-> "empty", at |-> None], [kind |-> "fail", at |-> None]}

\* the places of the model, and everything the service can answer
Places == {STR_Paris, STR_Nation, STR_Doree, STR_Vincennes, STR_Rome}

AllAnswers == UNION {Answers(location) : location \in Places \cup {<<>>}}

\* line 148: hotspot.location or ""
location_or_empty(row) == IF Truthy(row.location) THEN row.location ELSE <<>>

\* lines 149-157: the list of the point made of row h and coords, empty when
\* _process_hotspot returns None
process_hotspot_unchecked(h, row, coords) ==
    <<[type |-> row.type, payload |-> h,
       latitude |-> coords[1], longitude |-> coords[Len(coords)],
       confidence |-> IF row.confidence = -1 \/ row.confidence = 0
                      THEN 100 ELSE row.confidence]>>

process_hotspot(h, row, coords) ==
    IF coords = None THEN <<>>
    ELSE <<[type |-> row.type, payload |-> h,
            latitude |-> coords[1], longitude |-> coords[2],
            confidence |-> IF row.confidence = -1 \/ row.confidence = 0
                           THEN 100 ELSE row.confidence]>>

\* history: why the cache holds what it holds for the location of task k
RECURSIVE cause_before(_, _)
cause_before(k, location) ==
    IF k = 0 THEN "never"
    ELSE IF location_or_empty(hotspots[tasks[k]]) = location
         THEN resolution[tasks[k]].cause
         ELSE cause_before(k - 1, location)

\* one task of lines 133-144, its geocode call answered from the cache
ResolveCached ==
    /\ dpc = "assemble"
    /\ cursor < Len(tasks)
    /\ LET h == tasks[cursor + 1]
           location == location_or_empty(hotspots[h])
       IN  /\ cached(cache, location)
           /\ cache' = touch(cache, location)
           /\ points' = points \o process_hotspot(h, hotspots[h], lookup(cache, location))
           /\ resolution' = [resolution EXCEPT ![h] =
                                [value |-> lookup(cache, location),
                                 cause |-> cause_before(cursor, location),
                                 hit |-> TRUE]]
    /\ cursor' = cursor + 1
    /\ UNCHANGED <<clock, last_call_time, requests, recency, returned, call>>
    /\ UNCHANGED <<hotspots, composite_hotspots, scheduled, tasks, groups,
                   output_list, dpc, consumed, handled>>
    /\ UNCHANGED <<checkerVars, pipeVars>>

\* one task of lines 133-144, its geocode call run: the wait, the request and its
\* answer, the result stored in the cache
ResolveFresh(latency, response) ==
    /\ dpc = "assemble"
    /\ cursor < Len(tasks)
    /\ LET h == tasks[cursor + 1]
           location == location_or_empty(hotspots[h])
           g == geocode(location, clock, last_call_time, latency, response)
       IN  /\ ~cached(cache, location)
           /\ response \in Answers(location)
           /\ last_call_time' = g.last_call_time
           /\ requests' = IF g.sent THEN Append(requests, g.issued_at) ELSE requests
           /\ clock' = g.done_at
           /\ cache' = store(cache, location, g.result)
           /\ points' = points \o process_hotspot(h, hotspots[h], g.result)
           /\ resolution' = [resolution EXCEPT ![h] =
                                [value |-> g.result,
                                 cause |-> IF g.sent THEN response.kind ELSE "blank",
                                 hit |-> FALSE]]
    /\ cursor' = cursor + 1
    /\ UNCHANGED <<recency, returned, call>>
    /\ UNCHANGED <<hotspots, composite_hotspots, scheduled, tasks, groups,
                   output_list, dpc, consumed, handled>>
    /\ UNCHANGED <<checkerVars, pipeVars>>

\* lines 145 and 335-341: the points are back; with none of them the pass returns
\* an empty list
AssembleReturn ==
    /\ dpc = "assemble"
    /\ cursor = Len(tasks)
    /\ dpc' = IF points = <<>> THEN "returned" ELSE "cluster"
    /\ UNCHANGED <<hotspots, composite_hotspots, scheduled, tasks, points, groups,
                   output_list, cursor, resolution, consumed, handled>>
    /\ UNCHANGED <<checkerVars, geoVars, pipeVars>>

----------------------------------------------------------------------------
(* DetecterA.cluster_points *)

\* line 166: eps = 5.0 / 6371.0 radian of arc, in metres
eps == 5000

coords_of(p) == <<p.latitude, p.longitude>>

\* DBSCAN's radius neighbourhood of point i, the point itself included
neighbors(pts, i) ==
    {j \in DOMAIN pts : haversine_distance(coords_of(pts[i]), coords_of(pts[j])) <= eps}

\* with min_samples=1 every point is a core point: a cluster grows from a point by
\* taking in the neighbourhood of every point it holds
RECURSIVE expand(_, _)
expand(pts, S) ==
    LET T == S \cup UNION {neighbors(pts, i) : i \in S}
    IN  IF T = S THEN S ELSE expand(pts, T)

seed_cluster_direct(pts, i) == neighbors(pts, i)

seed_cluster(pts, i) == expand(pts, {i})

\* DBSCAN.fit: points are visited in order, an unlabelled one starts the next label
RECURSIVE label_from(_, _, _)
label_from(pts, i, acc) ==
    IF i > Len(pts) THEN acc
    ELSE IF \E c \in DOMAIN acc : i \in acc[c]
         THEN label_from(pts, i + 1, acc)
         ELSE label_from(pts, i + 1, Append(acc, seed_cluster(pts, i)))

\* labels_, as the list of the clusters in label order, each a set of indexes
DBSCAN(pts) == label_from(pts, 1, <<>>)

\* lines 168-170: the points of a label, in the order of the list
members(pts, S) ==
    LET idx == SelectSeq([k \in 1..Len(pts) |-> k], LAMBDA k : k \in S)
    IN  [m \in DOMAIN idx |-> pts[idx[m]]]

\* lines 159-171; the values of the dict, in label order
cluster_points(pts) ==
    IF pts = <<>> THEN <<>>
    ELSE [c \in DOMAIN DBSCAN(pts) |-> members(pts, DBSCAN(pts)[c])]

\* lines 341-346
ClusterPoints ==
    /\ dpc = "cluster"
    /\ groups' = cluster_points(points)
    /\ output_list' = <<>>
    /\ cursor' = 0
    /\ dpc' = "aggregate"
    /\ UNCHANGED <<hotspots, composite_hotspots, scheduled, tasks, points,
                   resolution, consumed, handled>>
    /\ UNCHANGED <<checkerVars, geoVars, pipeVars>>

----------------------------------------------------------------------------
(* DetecterA.update_or_create_composite_hotspot *)

\* "high", "medium", "low", "High"
STR_high == <<104,105,103,104>>
STR_medium == <<109,101,100,105,117,109>>
STR_low == <<108,111,119>>
STR_High == <<72,105,103,104>>

RECURSIVE Flatten(_)
Flatten(ss) == IF ss = <<>> THEN <<>> ELSE Head(ss) \o Flatten(Tail(ss))

RECURSIVE MaxOf(_)
MaxOf(s) == IF Len(s) = 1 THEN s[1] ELSE Max(Head(s), MaxOf(Tail(s)))

Count(s, x) == Cardinality({k \in DOMAIN s : s[k] = x})

\* lines 174-176
total_confidence(cp) ==
    LET t == SumSeq([k \in DOMAIN cp |-> cp[k].confidence])
    IN  IF t = 0 THEN 100 ELSE t

\* lines 178-179
avg_lat(cp) ==
    SumSeq([k \in DOMAIN cp |-> cp[k].latitude * cp[k].confidence]) \div total_confidence(cp)

avg_lon(cp) ==
    SumSeq([k \in DOMAIN cp |-> cp[k].longitude * cp[k].confidence]) \div total_confidence(cp)

\* line 183, in thousandths of a degree
approx_deg == 50

\* lines 184-189: the rows the query returns
candidates(table, lat, lon) ==
    {ch \in DOMAIN table :
        /\ lat - approx_deg <= table[ch].latitude /\ table[ch].latitude <= lat + approx_deg
        /\ lon - approx_deg <= table[ch].longitude /\ table[ch].longitude <= lon + approx_deg}

\* lines 191-196: the rows the loop can stop at.  The query has no ORDER BY, so
\* that any of them can come first and be "existing".
within_5km(table, lat, lon) ==
    {ch \in candidates(table, lat, lon) :
        haversine_distance(<<table[ch].latitude, table[ch].longitude>>, <<lat, lon>>) <= 5000}

\* lines 205-211
report_ids(cp, rows) == {rows[cp[k].payload].report_id : k \in DOMAIN cp} \ {0}

\* lines 213-216: the (emotion, score * confidence) terms, in the order they are added
weighted_emotions(cp, rows) ==
    Flatten([k \in DOMAIN cp |->
        IF cp[k].type = "human"
        THEN [m \in DOMAIN rows[cp[k].payload].emotions |->
                 [emotion |-> rows[cp[k].payload].emotions[m].emotion,
                  score |-> rows[cp[k].payload].emotions[m].score * cp[k].confidence]]
        ELSE <<>>])

emotion_agg(cp, rows) ==
    LET w == weighted_emotions(cp, rows)
    IN  [e \in {w[m].emotion : m \in DOMAIN w} |->
            SumSeq([m \in DOMAIN w |-> IF w[m].emotion = e THEN w[m].score ELSE 0])]

\* line 217, in hundredths
panic_map(level) ==
    CASE level = STR_high -> 100
      [] level = STR_medium -> 60
      [] level = STR_low -> 30
      [] OTHER -> 0

\* lines 217-219
panic_scores(cp, rows) ==
    LET humans == SelectSeq(cp, LAMBDA p : p.type = "human")
    IN  [k \in DOMAIN humans |->
            humans[k].confidence
                * panic_map(lower(IF Truthy(rows[humans[k].payload].panic_level)
                                  THEN rows[humans[k].payload].panic_level ELSE <<>>))]

disasters(cp) == SelectSeq(cp, LAMBDA p : p.type = "disaster")

\* lines 221-223
event_types_set(cp, rows) ==
    {rows[disasters(cp)[k].payload].event_type : k \in DOMAIN disasters(cp)} \ {""}

\* line 201 and severity_scale.get(severity, 1)
severity_scale(severity) ==
    CASE severity = "critical" -> 4
      [] severity = "high" -> 3
      [] severity = "medium" -> 2
      [] severity = "low" -> 1
      [] OTHER -> 1

\* lines 224-226: severity value times confidence, in hundredths
severity_vals(cp, rows) ==
    [k \in DOMAIN disasters(cp) |->
        severity_scale(rows[disasters(cp)[k].payload].severity) * disasters(cp)[k].confidence]

\* line 232 and rev_severity.get(value, "low"), the value in hundredths
rev_severity(value) ==
    CASE value = 400 -> "critical"
      [] value = 300 -> "high"
      [] value = 200 -> "medium"
      [] value = 100 -> "low"
      [] OTHER -> "low"

\* lines 227-229: the risk levels counted, in the order they are met
risk_levels(cp, rows) ==
    SelectSeq([k \in DOMAIN disasters(cp) |-> rows[disasters(cp)[k].payload].risk_level],
              LAMBDA l : l # "")

\* Counter.most_common(1)[0][0]: the most frequent, the first met among equals
most_common(levels) ==
    levels[CHOOSE k \in DOMAIN levels :
              /\ \A j \in DOMAIN levels : Count(levels, levels[j]) <= Count(levels, levels[k])
              /\ \A j \in 1..(k - 1) : Count(levels, levels[j]) < Count(levels, levels[k])]

\* line 298
founding_count_points(cp, rows) == Len(cp)

founding_count(cp, rows) == Cardinality(report_ids(cp, rows))

\* line 231
total_reports_batch(existing, cp, rows) == Cardinality(report_ids(cp, rows))

total_reports(existing, cp, rows) ==
    existing.contributing_reports_count + Cardinality(report_ids(cp, rows))

\* lines 290-299
new_hotspot(cp, rows) ==
    [latitude |-> avg_lat(cp),
     longitude |-> avg_lon(cp),
     aggregated_emotions |->
         [e \in DOMAIN emotion_agg(cp, rows) |-> emotion_agg(cp, rows)[e] \div Len(cp)],
     average_panic_level |->
         IF panic_scores(cp, rows) # <<>>
         THEN SumSeq(panic_scores(cp, rows)) \div Len(cp) ELSE 0,
     event_types |-> event_types_set(cp, rows),
     severity_level |->
         rev_severity(IF severity_vals(cp, rows) # <<>>
                      THEN MaxOf(severity_vals(cp, rows)) ELSE 100),
     risk_level |->
         IF risk_levels(cp, rows) # <<>>
         THEN most_common(risk_levels(cp, rows)) ELSE "unknown",
     contributing_reports_count |-> founding_count(cp, rows)]

\* lines 240 and 244: the divisions raise ZeroDivisionError when total_reports is 0
merge_raises(existing, cp, rows) == total_reports(existing, cp, rows) = 0

\* lines 237-241
merged_emotions(existing, cp, rows) ==
    LET agg == emotion_agg(cp, rows)
        old == existing.aggregated_emotions
    IN  [e \in DOMAIN old \cup DOMAIN agg |->
            IF e \in DOMAIN agg
            THEN ((IF e \in DOMAIN old THEN old[e] ELSE 0)
                      * existing.contributing_reports_count + agg[e])
                     \div total_reports(existing, cp, rows)
            ELSE old[e]]

\* lines 248-249
merged_severity(existing, cp, rows) ==
    rev_severity(MaxOf(<<severity_scale(existing.severity_level) * 100>>
                           \o severity_vals(cp, rows)))

\* lines 243-245, in ten-thousandths
avg_panic_by_batch(existing, cp, rows) ==
    (existing.average_panic_level * existing.contributing_reports_count
         + SumSeq(panic_scores(cp, rows)))
        \div Cardinality(report_ids(cp, rows))

avg_panic(existing, cp, rows) ==
    (existing.average_panic_level * existing.contributing_reports_count
         + SumSeq(panic_scores(cp, rows)))
        \div total_reports(existing, cp, rows)

\* lines 234-269: the values the update writes
merged_hotspot(existing, cp, rows) ==
    LET total == total_reports(existing, cp, rows)
        count == existing.contributing_reports_count
        batch == Cardinality(report_ids(cp, rows))
    IN  [latitude |-> (existing.latitude * count + avg_lat(cp) * batch) \div total,
         longitude |-> (existing.longitude * count + avg_lon(cp) * batch) \div total,
         aggregated_emotions |-> merged_emotions(existing, cp, rows),
         average_panic_level |-> avg_panic(existing, cp, rows),
         event_types |-> existing.event_types \cup event_types_set(cp, rows),
         severity_level |-> merged_severity(existing, cp, rows),
         risk_level |->
             IF risk_levels(cp, rows) # <<>>
             THEN most_common(risk_levels(cp, rows)) ELSE existing.risk_level,
         contributing_reports_count |-> total]

\* lines 276-285 and 305-314, and CompositeHotspotOutput
output_of(row) ==
    [latitude |-> row.latitude,
     longitude |-> row.longitude,
     aggregated_emotions |-> row.aggregated_emotions,
     average_panic_level |-> row.average_panic_level,
     event_types |-> row.event_types,
     severity_level |-> row.severity_level,
     risk_level |-> row.risk_level,
     contributing_reports |-> row.contributing_reports_count]

\* the rows a group is made of
payloads(cp) == {cp[k].payload : k \in DOMAIN cp}

\* lines 287-314 for the next group of lines 347-350: no row is within 5 km among
\* the candidates, a new row is written
CreateHotspot ==
    /\ dpc = "aggregate"
    /\ cursor < Len(groups)
    /\ LET cp == groups[cursor + 1]
           row == new_hotspot(cp, hotspots)
       IN  /\ within_5km(composite_hotspots, avg_lat(cp), avg_lon(cp)) = {}
           /\ composite_hotspots' = Append(composite_hotspots, row)
           /\ output_list' = Append(output_list, output_of(row))
           /\ consumed' = consumed \cup payloads(cp)
           /\ handled' = Append(handled,
                  [op |-> "create", group |-> cp,
                   centroid |-> <<avg_lat(cp), avg_lon(cp)>>,
                   before |-> composite_hotspots, target |-> Len(composite_hotspots) + 1,
                   after |-> row])
    /\ cursor' = cursor + 1
    /\ UNCHANGED <<hotspots, scheduled, tasks, points, groups, dpc, resolution>>
    /\ UNCHANGED <<checkerVars, geoVars, pipeVars>>

\* lines 234-285 for the next group of lines 347-350: row ch is "existing", it is
\* updated
MergeHotspot(ch) ==
    /\ dpc = "aggregate"
    /\ cursor < Len(groups)
    /\ LET cp == groups[cursor + 1]
           existing == composite_hotspots[ch]
           row == merged_hotspot(existing, cp, hotspots)
       IN  /\ ch \in within_5km(composite_hotspots, avg_lat(cp), avg_lon(cp))
           /\ ~merge_raises(existing, cp, hotspots)
           /\ composite_hotspots' = [composite_hotspots EXCEPT ![ch] = row]
           /\ output_list' = Append(output_list, output_of(row))
           /\ consumed' = consumed \cup payloads(cp)
           /\ handled' = Append(handled,
                  [op |-> "merge", group |-> cp,
                   centroid |-> <<avg_lat(cp), avg_lon(cp)>>,
                   before |-> composite_hotspots, target |-> ch, after |-> row])
    /\ cursor' = cursor + 1
    /\ UNCHANGED <<hotspots, scheduled, tasks, points, groups, dpc, resolution>>
    /\ UNCHANGED <<checkerVars, geoVars, pipeVars>>

\* the loop of lines 347-353 stopped by the failure of a group
GroupFailsAborts ==
    /\ dpc = "aggregate"
    /\ cursor < Len(groups)
    /\ dpc' = "raised"
    /\ UNCHANGED <<hotspots, composite_hotspots, scheduled, tasks, points, groups,
                   output_list, cursor, resolution, consumed, handled>>
    /\ UNCHANGED <<checkerVars, geoVars, pipeVars>>

\* lines 351-353 for the next group of lines 347-350: the query, the arithmetic or
\* the write raises, nothing is written, the loop goes on
GroupFails ==
    /\ dpc = "aggregate"
    /\ cursor < Len(groups)
    /\ LET cp == groups[cursor + 1]
       IN  handled' = Append(handled,
               [op |-> "fail", group |-> cp,
                centroid |-> <<avg_lat(cp), avg_lon(cp)>>,
                before |-> composite_hotspots, target |-> 0,
                after |-> [contributing_reports_count |-> 0]])
    /\ cursor' = cursor + 1
    /\ UNCHANGED <<hotspots, composite_hotspots, scheduled, tasks, points, groups,
                   output_list, dpc, resolution, consumed>>
    /\ UNCHANGED <<checkerVars, geoVars, pipeVars>>

\* the rows of a list with their status set to aggregated
aggregated(rows, S) ==
    [k \in DOMAIN rows |-> IF k \in S THEN [rows[k] EXCEPT !.status = "aggregated"]
                           ELSE rows[k]]

\* lines 355-367: the rows of all the points are marked, the list is returned
MarkAggregated ==
    /\ dpc = "aggregate"
    /\ cursor = Len(groups)
    /\ hotspots' = aggregated(hotspots, payloads(points))
    /\ dpc' = "returned"
    /\ UNCHANGED <<composite_hotspots, scheduled, tasks, points, groups, output_list,
                   cursor, resolution, consumed, handled>>
    /\ UNCHANGED <<checkerVars, geoVars, pipeVars>>

----------------------------------------------------------------------------
(* detection_scheduler and generate_map_json_with_persistence *)

select_all(rows, type) ==
    SelectSeq([k \in 1..Len(rows) |-> k], LAMBDA k : rows[k].type = type)

\* select(...).where(status == AggregateStatus.pending), detecter_fixed.py lines
\* 324-330 and main.py lines 374-381
select_pending(rows, type) ==
    SelectSeq([k \in 1..Len(rows) |-> k],
              LAMBDA k : rows[k].type = type /\ rows[k].status = "pending")

\* main.py lines 374-385: the scheduler reads the pending rows; with none of them it
\* sleeps and reads again
SchedulerSelect ==
    /\ dpc = "idle"
    /\ select_pending(hotspots, "human") \o select_pending(hotspots, "disaster") # <<>>
    /\ scheduled' = select_pending(hotspots, "human") \o select_pending(hotspots, "disaster")
    /\ dpc' = "scheduled"
    /\ UNCHANGED <<hotspots, composite_hotspots, tasks, points, groups, output_list,
                   cursor, resolution, consumed, handled>>
    /\ UNCHANGED <<checkerVars, geoVars, pipeVars>>

\* main.py line 387, detecter_fixed.py lines 125-127 and 316-335: a DetecterA with a
\* GeoCoder of its own is built, the pass reads the pending rows and starts on them
GenerateSelect ==
    /\ dpc = "scheduled"
    /\ tasks' = select_pending(hotspots, "human") \o select_pending(hotspots, "disaster")
    /\ points' = <<>>
    /\ groups' = <<>>
    /\ output_list' = <<>>
    /\ handled' = <<>>
    /\ cursor' = 0
    /\ resolution' = [k \in DOMAIN hotspots |->
                         [value |-> Never, cause |-> "never", hit |-> FALSE]]
    /\ last_call_time' = 0
    /\ cache' = <<>>
    /\ requests' = <<>>
    /\ dpc' = "assemble"
    /\ UNCHANGED <<hotspots, composite_hotspots, scheduled, consumed>>
    /\ UNCHANGED <<clock, recency, returned, call>>
    /\ UNCHANGED <<checkerVars, pipeVars>>

\* main.py lines 390-395: every row the scheduler read is marked
SchedulerMark ==
    /\ dpc = "returned"
    /\ hotspots' = aggregated(hotspots, Range(scheduled))
    /\ dpc' = "idle"
    /\ UNCHANGED <<composite_hotspots, scheduled, tasks, points, groups, output_list,
                   cursor, resolution, consumed, handled>>
    /\ UNCHANGED <<checkerVars, geoVars, pipeVars>>

\* main.py lines 333-358: the classification worker stores a new row, pending.  A
\* report has at most one row of each type.
AddHotspot(row) ==
    /\ dpc \in {"idle", "scheduled"}
    /\ Len(hotspots) < MaxRows
    /\ \A k \in DOMAIN hotspots :
           ~(hotspots[k].type = row.type /\ hotspots[k].report_id = row.report_id)
    /\ hotspots' = Append(hotspots, row)
    /\ UNCHANGED <<composite_hotspots, scheduled, tasks, points, groups, output_list,
                   cursor, dpc, resolution, consumed, handled>>
    /\ UNCHANGED <<checkerVars, geoVars, pipeVars>>

\* the task that runs the pass is cancelled while it awaits between two groups of
\* the loop of lines 347-353: CancelledError is no Exception, so that neither line
\* 351 nor main.py line 400 catches it; lines 355-363 and main.py lines 390-395 are
\* not run.  What the groups handled so far wrote was committed (lines 272 and 302)
\* and stays; the scheduler, started again, begins with its query
Cancel ==
    /\ dpc = "aggregate"
    /\ 0 < cursor /\ cursor < Len(groups)
    /\ cancels < MaxCancels
    /\ dpc' = "idle"
    /\ cancels' = cancels + 1
    /\ UNCHANGED <<hotspots, composite_hotspots, scheduled, tasks, points, groups,
                   output_list, cursor, resolution, consumed, handled>>
    /\ UNCHANGED <<checkerVars, geoVars, callVars, workerVars>>

----------------------------------------------------------------------------
(* update_or_create_composite_hotspot called for several groups at once *)

\* Each call runs over a database session of its own.  A call awaits the query
\* (line 188) and the update (lines 271-272); between the two it holds what the
\* query returned.  No lock is taken and no row is selected for update.

\* lines 174-196 of call o: the centroid, the query, and the row the loop stops
\* at, row ch of the store or 0 for none
OpQuery(o, ch) ==
    /\ o \in DOMAIN ops
    /\ ops[o].at = "query"
    /\ LET cp == ops[o].group
           near == within_5km(composite_hotspots, avg_lat(cp), avg_lon(cp))
       IN  /\ IF near = {} THEN ch = 0 ELSE ch \in near
           /\ ops' = [ops EXCEPT ![o] =
                         [group |-> cp, at |-> "write", existing |-> ch,
                          read |-> IF ch = 0 THEN <<>> ELSE <<composite_hotspots[ch]>>]]
    /\ UNCHANGED <<checkerVars, geoVars, detVars, workerVars, cancels>>

\* lines 199-272 and 287-302 of call o: the values are computed from the row as the
\* query returned it and written to the row of that id, or a new row is added
OpWrite(o) ==
    /\ o \in DOMAIN ops
    /\ ops[o].at = "write"
    /\ LET cp == ops[o].group
           ch == ops[o].existing
       IN  composite_hotspots' =
               IF ch = 0 THEN Append(composite_hotspots, new_hotspot(cp, hotspots))
               ELSE IF merge_raises(ops[o].read[1], cp, hotspots) THEN composite_hotspots
               ELSE [composite_hotspots EXCEPT
                        ![ch] = merged_hotspot(ops[o].read[1], cp, hotspots)]
    /\ ops' = [ops EXCEPT ![o].at = "done"]
    /\ UNCHANGED <<hotspots, scheduled, tasks, points, groups, output_list, cursor,
                   dpc, resolution, consumed, handled>>
    /\ UNCHANGED <<checkerVars, geoVars, workerVars, cancels>>

----------------------------------------------------------------------------
(* Initial states *)

GeoInit ==
    /\ clock = StartClock
    /\ last_call_time = 0
    /\ cache = <<>>
    /\ requests = <<>>
    /\ recency = <<>>
    /\ returned = [l \in Locations |-> [value |-> Never, cause |-> "never"]]
    /\ call = [count |-> 0, location |-> None, result |-> None,
               hit |-> FALSE, sent |-> FALSE]

Batches(Pool) == UNION {[1..n -> Pool] : n \in 0..MaxBatch}

CheckerInit(Pool) ==
    /\ input \in Batches(Pool)
    /\ reports = input
    /\ clusters = <<>>
    /\ verified_reports = <<>>
    /\ processed = 0
    /\ pc = "create"

\* "fire", "Fire", "flood", "smoke", "twitter", "Red Cross", "bob"
STR_fire == <<102,105,114,101>>
STR_Fire == <<70,105,114,101>>
STR_flood == <<102,108,111,111,100>>
STR_smoke == <<115,109,111,107,101>>
STR_twitter == <<116,119,105,116,116,101,114>>
STR_Red_Cross == <<82,101,100,32,67,114,111,115,115>>
STR_bob == <<98,111,98>>

\* "2025-09-14Thh:mm:00Z"
Stamp(hh, mm) ==
    <<50,48,50,53,45,48,57,45,49,52,84>>
        \o <<48 + (hh \div 10), 48 + (hh % 10), 58, 48 + (mm \div 10), 48 + (mm % 10)>>
        \o <<58,48,48,90>>

Report(et, loc, ts, desc, src, rep, conf) ==
    [event_type |-> et, location |-> loc, timestamp |-> ts, description |-> desc,
     source |-> src, media_urls |-> <<>>, reporter |-> rep, confidence |-> conf,
     veracity_flag |-> None]

\* batches that differ in what _create_clusters compares
ClusterPool ==
    {Report(et, loc, ts, None, STR_twitter, None, 50) :
        et \in {STR_fire, STR_flood},
        loc \in {None, STR_Paris},
        ts \in {Stamp(12, 0), Stamp(13, 30), Stamp(15, 0)}}

\* two events that share no field, a fire in Paris at noon and a flood in Rome at
\* three, as four sources tell them: the fire by a twitter user and, in capitals,
\* by the Red Cross, the flood by nobody known and by the Red Cross
Sightings ==
    {[event_type |-> STR_fire, location |-> STR_Paris, timestamp |-> Stamp(12, 0),
      source |-> STR_twitter],
     [event_type |-> STR_Fire, location |-> STR_Paris, timestamp |-> Stamp(12, 0),
      source |-> STR_Red_Cross],
     [event_type |-> STR_flood, location |-> STR_Rome, timestamp |-> Stamp(15, 0),
      source |-> None],
     [event_type |-> STR_flood, location |-> STR_Rome, timestamp |-> Stamp(15, 0),
      source |-> STR_Red_Cross]}

\* batches that differ in what process_clusters looks at
GatePool ==
    {Report(s.event_type, s.location, s.timestamp, None, s.source, None, conf) :
        s \in Sightings,
        conf \in {-1, 0, 90}}

\* batches that differ in what process_clusters writes: the fire is reported on
\* twitter with a confidence of 0.5 or 0.9, the flood by the Red Cross with 0.5
MarkPool ==
    {Report(STR_fire, STR_Paris, Stamp(12, 0), None, STR_twitter, rep, conf) :
        rep \in {None, <<>>, STR_bob, STR_unknown},
        conf \in {50, 90}}
    \cup
    {Report(STR_flood, STR_Rome, Stamp(15, 0), None, STR_Red_Cross, rep, 50) :
        rep \in {None, <<>>, STR_bob, STR_unknown}}

\* no hotspot row yet, the scheduler asleep
DetectInit ==
    /\ hotspots = <<>>
    /\ composite_hotspots = <<>>
    /\ scheduled = <<>>
    /\ tasks = <<>>
    /\ points = <<>>
    /\ groups = <<>>
    /\ output_list = <<>>
    /\ cursor = 0
    /\ dpc = "idle"
    /\ resolution = <<>>
    /\ consumed = {}
    /\ handled = <<>>

\* the workers were just started: no report was extracted yet, the streams are empty
WorkersInit ==
    /\ report_rows = <<>>
    /\ streams = [check |-> <<>>, analyze |-> <<>>]
    /\ delivered = [check |-> 0, analyze |-> 0]

\* no aggregation operation is running beside the pass, which was never cancelled
PipeInit == ops = <<>> /\ WorkersInit /\ cancels = 0

InitCluster == CheckerInit(ClusterPool) /\ GeoInit /\ DetectInit /\ PipeInit
InitGate == CheckerInit(GatePool) /\ GeoInit /\ DetectInit /\ PipeInit
InitMark == CheckerInit(MarkPool) /\ GeoInit /\ DetectInit /\ PipeInit
InitGeo == CheckerInit({}) /\ GeoInit /\ DetectInit /\ PipeInit

\* "2025-09-ddThh:mm:ssZ"
Instant(dd, hh, mm, ss) ==
    <<50,48,50,53,45,48,57,45, 48 + (dd \div 10), 48 + (dd % 10), 84,
      48 + (hh \div 10), 48 + (hh % 10), 58, 48 + (mm \div 10), 48 + (mm % 10), 58,
      48 + (ss \div 10), 48 + (ss % 10), 90>>

\* the instants of the reports: noon of the 14th, then 30, 90 and 120 minutes and
\* 120 minutes and a second after it, and noon of the 15th
Instants ==
    {<<14, 12, 0, 0>>, <<14, 12, 30, 0>>, <<14, 13, 30, 0>>, <<14, 14, 0, 0>>,
     <<14, 14, 0, 1>>, <<15, 12, 0, 0>>}

\* "2025-9-14T12:00:00Z", "2025-09-14t12:00:00z", "2025-09-14 12:00:00"
STR_one_digit_month == <<50,48,50,53,45,57,45,49,52,84,49,50,58,48,48,58,48,48,90>>
STR_small_letters ==
    <<50,48,50,53,45,48,57,45,49,52,116,49,50,58,48,48,58,48,48,122>>
STR_no_letters == <<50,48,50,53,45,48,57,45,49,52,32,49,50,58,48,48,58,48,48>>

\* reports of a fire that differ in their timestamp only: the instants, three
\* texts that are not of the form YYYY-MM-DDTHH:MM:SSZ, an empty one and none
WindowPool ==
    {Report(STR_fire, None, ts, None, STR_twitter, None, 50) :
        ts \in {Instant(x[1], x[2], x[3], x[4]) : x \in Instants}
                 \cup {STR_one_digit_month, STR_small_letters, STR_no_letters, <<>>, None}}

InitWindow == CheckerInit(WindowPool) /\ GeoInit /\ DetectInit /\ PipeInit

SpecWindow == InitWindow /\ [][NextChecker]_vars

\* reports that differ in the fields _create_clusters compares: a fire or a flood,
\* at noon or at three, with no location, at Paris, or at Paris with a description
JoinPool ==
    {Report(et, ld[1], ts, ld[2], STR_twitter, None, 50) :
        et \in {STR_fire, STR_flood},
        ld \in {<<None, None>>, <<STR_Paris, None>>, <<STR_Paris, STR_smoke>>},
        ts \in {Stamp(12, 0), Stamp(15, 0)}}

InitJoin == CheckerInit(JoinPool) /\ GeoInit /\ DetectInit /\ PipeInit

SpecJoin == InitJoin /\ [][NextChecker]_vars

\* a row of human_hotspots and a row of disaster_hotspots (core/models.py), pending;
\* an absent text column is "" where the code only tests it for truth
HumanHotspot(report_id, location, emotions, panic_level, confidence) ==
    [type |-> "human", report_id |-> report_id, location |-> location,
     emotions |-> emotions, panic_level |-> panic_level,
     event_type |-> "", severity |-> "low", risk_level |-> "",
     confidence |-> confidence, status |-> "pending"]

DisasterHotspot(report_id, location, event_type, severity, risk_level, confidence) ==
    [type |-> "disaster", report_id |-> report_id, location |-> location,
     emotions |-> <<>>, panic_level |-> None,
     event_type |-> event_type, severity |-> severity, risk_level |-> risk_level,
     confidence |-> confidence, status |-> "pending"]

\* the tables of at most n rows of a pool, a report having one row of a type at most
Tables(Pool, n) ==
    {t \in UNION {[1..m -> Pool] : m \in 0..n} :
        \A j, k \in DOMAIN t :
            j # k => ~(t[j].type = t[k].type /\ t[j].report_id = t[k].report_id)}

\* the pass about to resolve the rows of a table: the state GenerateSelect leaves
AssembleInit(T) ==
    /\ hotspots \in T
    /\ composite_hotspots = <<>>
    /\ scheduled = select_pending(hotspots, "human") \o select_pending(hotspots, "disaster")
    /\ tasks = scheduled
    /\ points = <<>>
    /\ groups = <<>>
    /\ output_list = <<>>
    /\ cursor = 0
    /\ dpc = "assemble"
    /\ resolution = [k \in DOMAIN hotspots |->
                        [value |-> Never, cause |-> "never", hit |-> FALSE]]
    /\ consumed = {}
    /\ handled = <<>>

\* rows that differ in their location, two of them of the same report
AssemblePool ==
    {HumanHotspot(1, loc, <<>>, STR_low, 80) :
        loc \in {None, STR_spaces, STR_Paris, STR_Rome}}
    \cup
    {DisasterHotspot(id, loc, "fire", "high", "high", 90) :
        id \in {1, 2}, loc \in {STR_Paris, STR_Rome}}

InitAssemble ==
    CheckerInit({}) /\ GeoInit /\ AssembleInit(Tables(AssemblePool, MaxRows)) /\ PipeInit

NextAssemble ==
    \/ ResolveCached
    \/ \E latency \in {0, MaxLatency}, response \in AllAnswers :
           ResolveFresh(latency, response)
    \/ AssembleReturn

SpecAssemble == InitAssemble /\ [][NextAssemble]_vars

\* the pass about to cluster the points of a table, every row of it resolved to
\* its place: a state AssembleReturn leaves
all_points(rows) ==
    Flatten([k \in DOMAIN rows |->
                process_hotspot(k, rows[k], Gazetteer(location_or_empty(rows[k])))])

ClusterInit(T) ==
    /\ hotspots \in T
    /\ composite_hotspots = <<>>
    /\ scheduled = select_pending(hotspots, "human") \o select_pending(hotspots, "disaster")
    /\ tasks = scheduled
    /\ points = all_points([k \in DOMAIN tasks |-> hotspots[tasks[k]]])
    /\ groups = <<>>
    /\ output_list = <<>>
    /\ cursor = Len(tasks)
    /\ dpc = "cluster"
    /\ resolution = [k \in DOMAIN hotspots |->
                        [value |-> Gazetteer(location_or_empty(hotspots[k])),
                         cause |-> "found", hit |-> FALSE]]
    /\ consumed = {}
    /\ handled = <<>>

\* rows of two reports at the five places
SpatialPool ==
    {HumanHotspot(id, loc, <<>>, STR_low, 80) : id \in {1, 2}, loc \in Places}
    \cup
    {DisasterHotspot(id, loc, "fire", "high", "high", 90) : id \in {1, 2}, loc \in Places}

InitSpatial ==
    CheckerInit({}) /\ GeoInit /\ ClusterInit(Tables(SpatialPool, MaxPoints)) /\ PipeInit

NextSpatial == ClusterPoints

SpecSpatial == InitSpatial /\ [][NextSpatial]_vars

\* the pass about to handle the groups of a table, every row of it resolved to its
\* place, over a store: a state ClusterPoints leaves
GroupsInit(T, Stores) ==
    /\ hotspots \in T
    /\ composite_hotspots \in Stores
    /\ scheduled = select_pending(hotspots, "human") \o select_pending(hotspots, "disaster")
    /\ tasks = scheduled
    /\ points = all_points([k \in DOMAIN tasks |-> hotspots[tasks[k]]])
    /\ groups = cluster_points(points)
    /\ output_list = <<>>
    /\ cursor = 0
    /\ dpc = "aggregate"
    /\ resolution = [k \in DOMAIN hotspots |->
                        [value |-> Gazetteer(location_or_empty(hotspots[k])),
                         cause |-> "found", hit |-> FALSE]]
    /\ consumed = {}
    /\ handled = <<>>

\* the hotspot an earlier pass made of one row of report 9
founded(row) == new_hotspot(all_points(<<row>>), <<row>>)

\* the stores an earlier pass can have left: empty, or one hotspot: of a frightened
\* crowd at Paris or at Nation, or of a flood of medium severity at Paris
AggregateStores ==
    {<<>>,
     <<founded(HumanHotspot(9, STR_Paris, <<[emotion |-> "fear", score |-> 50]>>,
                            STR_High, 80))>>,
     <<founded(HumanHotspot(9, STR_Nation, <<[emotion |-> "fear", score |-> 50]>>,
                            STR_High, 80))>>,
     <<founded(DisasterHotspot(9, STR_Paris, "flood", "medium", "low", 100))>>}

\* the rows of two reports, each with a human and a disaster row, at three places
AggregatePool ==
    {HumanHotspot(1, loc, <<[emotion |-> "fear", score |-> 50]>>, STR_High, 80) :
        loc \in {STR_Paris, STR_Doree, STR_Vincennes}}
    \cup
    {HumanHotspot(2, loc, <<[emotion |-> "anger", score |-> 40]>>, STR_low, 80) :
        loc \in {STR_Paris, STR_Doree, STR_Vincennes}}
    \cup
    {DisasterHotspot(1, loc, "fire", "high", "high", 90) :
        loc \in {STR_Paris, STR_Doree, STR_Vincennes}}
    \cup
    {DisasterHotspot(2, loc, "flood", "critical", "low", 100) :
        loc \in {STR_Paris, STR_Doree, STR_Vincennes}}

InitAggregate ==
    CheckerInit({}) /\ GeoInit
        /\ GroupsInit(Tables(AggregatePool, MaxPoints), AggregateStores) /\ PipeInit

NextAggregate ==
    \/ CreateHotspot
    \/ \E ch \in DOMAIN composite_hotspots : MergeHotspot(ch)
    \/ GroupFails

SpecAggregate == InitAggregate /\ [][NextAggregate]_vars

\* the rows the classification worker stores: the two rows of a report at Paris, a
\* row of another report at Rome, and one without a location
PassPool ==
    {HumanHotspot(1, STR_Paris, <<[emotion |-> "fear", score |-> 50]>>, STR_High, 80),
     DisasterHotspot(1, STR_Paris, "fire", "high", "high", 90),
     DisasterHotspot(2, STR_Rome, "flood", "medium", "low", 90),
     HumanHotspot(2, None, <<>>, STR_low, 80)}

InitPass == CheckerInit({}) /\ GeoInit /\ DetectInit /\ PipeInit

NextPass ==
    \/ \E row \in PassPool : AddHotspot(row)
    \/ SchedulerSelect
    \/ GenerateSelect
    \/ ResolveCached
    \/ \E latency \in {0, MaxLatency}, response \in AllAnswers :
           ResolveFresh(latency, response)
    \/ AssembleReturn
    \/ ClusterPoints
    \/ CreateHotspot
    \/ \E ch \in DOMAIN composite_hotspots : MergeHotspot(ch)
    \/ GroupFails
    \/ MarkAggregated
    \/ SchedulerMark

SpecPass == InitPass /\ [][NextPass]_vars

\* passes over a store that starts empty, the rows being those of a report at Paris
\* and of a report at the Porte Doree, 4.65 km from it
StorePool ==
    {HumanHotspot(1, STR_Paris, <<[emotion |-> "fear", score |-> 50]>>, STR_High, 80),
     DisasterHotspot(1, STR_Paris, "fire", "high", "high", 90),
     DisasterHotspot(2, STR_Doree, "fire", "high", "high", 90),
     HumanHotspot(2, None, <<>>, STR_low, 80)}

NextStore ==
    \/ \E row \in StorePool : AddHotspot(row)
    \/ SchedulerSelect
    \/ GenerateSelect
    \/ ResolveCached
    \/ \E latency \in {0, MaxLatency}, response \in AllAnswers :
           ResolveFresh(latency, response)
    \/ AssembleReturn
    \/ ClusterPoints
    \/ CreateHotspot
    \/ \E ch \in DOMAIN composite_hotspots : MergeHotspot(ch)
    \/ GroupFails
    \/ MarkAggregated
    \/ SchedulerMark

SpecStore == InitPass /\ [][NextStore]_vars

\* the scheduler and its passes, a pass being cancelled at times
NextCancel == NextPass \/ Cancel

SpecCancel == InitPass /\ [][NextCancel]_vars

\* the calls for the groups of a clustering, none of them started: each group is
\* handed to a call of its own
CallsInit == ops = [o \in DOMAIN groups |->
                       [group |-> groups[o], at |-> "query", existing |-> 0,
                        read |-> <<>>]]

\* the stores the calls run over: one hotspot of report 9, at Nation or at Paris
InterleaveStores ==
    {<<founded(HumanHotspot(9, STR_Nation, <<[emotion |-> "fear", score |-> 50]>>,
                            STR_High, 80))>>,
     <<founded(HumanHotspot(9, STR_Paris, <<[emotion |-> "fear", score |-> 50]>>,
                            STR_High, 80))>>}

\* the rows of three reports at three places, Paris and Vincennes more than 5 km
\* apart and both less than 5 km from Nation
InterleavePool ==
    {HumanHotspot(1, loc, <<[emotion |-> "fear", score |-> 50]>>, STR_High, 80) :
        loc \in {STR_Paris, STR_Vincennes}}
    \cup
    {DisasterHotspot(id, loc, "fire", "high", "high", 90) :
        id \in {2, 3}, loc \in {STR_Paris, STR_Vincennes}}

InitInterleave ==
    CheckerInit({}) /\ GeoInit
        /\ GroupsInit(Tables(InterleavePool, MaxPoints), InterleaveStores)
        /\ CallsInit /\ WorkersInit /\ cancels = 0

NextInterleave ==
    \/ \E o \in DOMAIN ops, ch \in {0} \cup DOMAIN composite_hotspots : OpQuery(o, ch)
    \/ \E o \in DOMAIN ops : OpWrite(o)

SpecInterleave == InitInterleave /\ [][NextInterleave]_vars

----------------------------------------------------------------------------
(* The workers of the orchestrator: extractor_worker, checker_worker and
   analyser_worker, over the reports table and the check and analyze streams *)

\* how many rows the reports table may get
MaxReports == 3

BATCH_SIZE == 20

\* "confirmed", "earthquake", "riot", "storm", "inundation"
STR_confirmed == <<99,111,110,102,105,114,109,101,100>>
STR_earthquake == <<101,97,114,116,104,113,117,97,107,101>>
STR_riot == <<114,105,111,116>>
STR_storm == <<115,116,111,114,109>>
STR_inundation == <<105,110,117,110,100,97,116,105,111,110>>

\* a row of reports, for an extracted report
ReportRow(rep, status) ==
    [event_type |-> rep.event_type, location |-> rep.location,
     timestamp |-> rep.timestamp, description |-> rep.description,
     source |-> rep.source, media_urls |-> rep.media_urls,
     reporter |-> rep.reporter, confidence |-> rep.confidence,
     veracity_flag |-> rep.veracity_flag, status |-> status]

\* the checker's Report object made of a row
CheckerReport(row) ==
    [event_type |-> row.event_type, location |-> row.location,
     timestamp |-> row.timestamp, description |-> row.description,
     source |-> row.source, media_urls |-> row.media_urls,
     reporter |-> row.reporter, confidence |-> row.confidence,
     veracity_flag |-> row.veracity_flag]

\* xreadgroup(group, consumer, {stream: ">"}, count=BATCH_SIZE): the events of the
\* stream the group was not given yet, BATCH_SIZE of them at most
xreadgroup(stream) ==
    LET last == IF Len(streams[stream]) - delivered[stream] > BATCH_SIZE
                THEN delivered[stream] + BATCH_SIZE ELSE Len(streams[stream])
    IN  SubSeq(streams[stream], delivered[stream] + 1, last)

\* extractor_worker stores one extracted report, pending, and publishes its id
ExtractorStore(rep) ==
    /\ Len(report_rows) < MaxReports
    /\ report_rows' = Append(report_rows, ReportRow(rep, "pending"))
    /\ streams' = [streams EXCEPT !.check = Append(@, Len(report_rows) + 1)]
    /\ UNCHANGED <<ops, delivered, cancels>>
    /\ UNCHANGED <<checkerVars, geoVars, detVars>>

\* CheckerA._create_clusters over a whole batch, from report i on
RECURSIVE create_clusters(_, _, _)
create_clusters(reps, i, cls) ==
    IF i > Len(reps) THEN cls
    ELSE create_clusters(reps, i + 1,
                         place(cls, matched_cluster(reps[i], cls, reps), i))

\* CheckerA.process_clusters over all clusters, from cluster k on: the objects it
\* returns, as they are once marked
RECURSIVE process_clusters(_, _, _, _)
process_clusters(cls, reps, k, out) ==
    IF k > Len(cls) THEN out
    ELSE IF rejects(trusted_count(cls[k], reps), Len(cls[k]))
         THEN process_clusters(cls, reps, k + 1, out)
         ELSE LET marked == verify_cluster(reps, cls[k])
              IN  process_clusters(cls, marked, k + 1,
                                   Append(out, marked[best_report(cls[k], reps)]))

\* CheckerA.run
run(reps) == process_clusters(create_clusters(reps, 1, <<>>), reps, 1, <<>>)

\* the events whose row is still pending: the batch of checker_worker
pending_of(events) ==
    SelectSeq(events, LAMBDA id : report_rows[id].status = "pending")

\* the rows the query for a verified report can return: it selects on location and
\* description and takes one row, in no stated order
matches(v) ==
    {id \in DOMAIN report_rows :
        /\ report_rows[id].location = v.location
        /\ report_rows[id].description = v.description}

\* x or y, for a confidence (None is -1)
confidence_or(x, y) == IF x \in {-1, 0} THEN y ELSE x

\* the rows once the verified reports from the k-th on are written, pick[k] being
\* the row the query returned for the k-th (0 for none)
RECURSIVE store_verified(_, _, _, _)
store_verified(rows, verified, pick, k) ==
    IF k > Len(verified) THEN rows
    ELSE IF pick[k] = 0 THEN store_verified(rows, verified, pick, k + 1)
    ELSE store_verified(
             [rows EXCEPT ![pick[k]] =
                 [@ EXCEPT !.veracity_flag = IF Truthy(verified[k].veracity_flag)
                                             THEN verified[k].veracity_flag ELSE @,
                           !.confidence = confidence_or(verified[k].confidence, @),
                           !.status = "processed"]],
             verified, pick, k + 1)

\* one turn of checker_worker's loop with events to read: the pending rows of the
\* events become processing, run is called on them, and for each report it returns
\* a row is marked processed, given the report's flag, and published
CheckerWorker ==
    /\ delivered.check < Len(streams.check)
    /\ LET events == xreadgroup("check")
           batch == pending_of(events)
           taken == [id \in DOMAIN report_rows |->
                        IF id \in Range(batch)
                        THEN [report_rows[id] EXCEPT !.status = "processing"]
                        ELSE report_rows[id]]
           verified == run([k \in DOMAIN batch |-> CheckerReport(taken[batch[k]])])
       IN  /\ \E pick \in [DOMAIN verified -> 0..Len(report_rows)] :
                  /\ \A k \in DOMAIN verified :
                         IF matches(verified[k]) = {} THEN pick[k] = 0
                         ELSE pick[k] \in matches(verified[k])
                  /\ report_rows' = store_verified(taken, verified, pick, 1)
                  /\ streams' = [streams EXCEPT !.analyze =
                                    @ \o SelectSeq(pick, LAMBDA id : id # 0)]
           /\ delivered' = [delivered EXCEPT !.check = @ + Len(events)]
    /\ UNCHANGED <<ops, cancels>>
    /\ UNCHANGED <<checkerVars, geoVars, detVars>>

\* AnalyserA.severity_map and estimate_risk_level
severity_map(event_type) ==
    CASE event_type \in {STR_fire, STR_flood, STR_inundation} -> "high"
      [] event_type = STR_earthquake -> "very_high"
      [] event_type \in {STR_riot, STR_storm} -> "medium"
      [] OTHER -> "low"

estimate_risk_level(severity) ==
    CASE severity = "very_high" -> "critical"
      [] severity = "high" -> "high"
      [] severity = "medium" -> "medium"
      [] OTHER -> "low"

\* AnalyserA.panic_weights, in hundredths
panic_weights(emotion) ==
    CASE emotion = "panic" -> 100
      [] emotion = "fear" -> 90
      [] emotion = "anger" -> 80
      [] emotion = "sadness" -> 60
      [] emotion = "disgust" -> 50
      [] emotion = "surprise" -> 30
      [] OTHER -> 0

\* AnalyserA.estimate_panic_level: the score is in ten-thousandths
estimate_panic_level(emotions) ==
    LET panic_score == SumSeq([k \in DOMAIN emotions |->
                                  emotions[k].score * panic_weights(emotions[k].emotion)])
    IN  IF panic_score >= 10000 THEN STR_high
        ELSE IF panic_score >= 5000 THEN STR_medium
        ELSE STR_low

\* AnalyserA.analyze_emotions: a blank text is neutral; for another text, what the
\* fallback classifier answers when the text has none of its key words
analyze_emotions(text) ==
    IF strip(text) = <<>> THEN <<[emotion |-> "neutral", score |-> 100]>>
    ELSE <<[emotion |-> "neutral", score |-> 50]>>

\* the rows analyser_worker adds for a report row: one human row for a description
\* of one sentence at most, and the disaster row
analysed(id) ==
    LET rep == report_rows[id]
        emotions == analyze_emotions(IF Truthy(rep.description)
                                     THEN rep.description ELSE <<>>)
        severity == severity_map(IF Truthy(rep.event_type)
                                 THEN lower(rep.event_type) ELSE <<>>)
    IN  <<HumanHotspot(id, rep.location, emotions, estimate_panic_level(emotions), 80),
          DisasterHotspot(id, rep.location, rep.event_type, severity,
                          estimate_risk_level(severity), 90)>>

\* the events whose row the query of analyser_worker returns: its batch
confirmed_of(events) ==
    SelectSeq(events, LAMBDA id : /\ report_rows[id].status = "processed"
                                  /\ report_rows[id].veracity_flag = STR_confirmed)

\* one turn of analyser_worker's loop with events to read: the rows of its batch
\* are analysed and their hotspot rows stored, pending
AnalyserWorker ==
    /\ delivered.analyze < Len(streams.analyze)
    /\ LET events == xreadgroup("analyze")
           batch == confirmed_of(events)
       IN  /\ hotspots' = hotspots \o Flatten([k \in DOMAIN batch |-> analysed(batch[k])])
           /\ delivered' = [delivered EXCEPT !.analyze = @ + Len(events)]
    /\ UNCHANGED <<composite_hotspots, scheduled, tasks, points, groups, output_list,
                   cursor, dpc, resolution, consumed, handled>>
    /\ UNCHANGED <<ops, report_rows, streams, cancels>>
    /\ UNCHANGED <<checkerVars, geoVars>>

\* what the extractor finds: a fire at Paris told by the Red Cross and by a twitter
\* account, and a flood at Rome told by a twitter account; none has a timestamp
PipelinePool ==
    {[Report(STR_fire, STR_Paris, None, None, STR_Red_Cross, None, 90)
         EXCEPT !.veracity_flag = STR_confirmed],
     [Report(STR_fire, STR_Paris, None, None, STR_twitter, STR_bob, 50)
         EXCEPT !.veracity_flag = STR_confirmed],
     Report(STR_flood, STR_Rome, None, STR_smoke, STR_twitter, None, 50)}

InitPipeline == CheckerInit({}) /\ GeoInit /\ DetectInit /\ PipeInit

NextPipeline ==
    \/ \E rep \in PipelinePool : ExtractorStore(rep)
    \/ CheckerWorker
    \/ AnalyserWorker

SpecPipeline == InitPipeline /\ [][NextPipeline]_vars


SpecCluster == InitCluster /\ [][NextChecker]_vars
SpecGate == InitGate /\ [][NextChecker]_vars
SpecMark == InitMark /\ [][NextChecker]_vars
SpecGeo == InitGeo /\ [][NextGeo]_vars

Next == NextChecker \/ NextGeo \/ NextPass
Init == InitCluster \/ InitGate \/ InitMark
Spec == Init /\ [][Next]_vars

----------------------------------------------------------------------------
(* Properties of CheckerA *)

ClusterOf(i) == CHOOSE c \in DOMAIN clusters : i \in Range(clusters[c])

Anchor(c) == clusters[c][1]

\* how often process_clusters emitted a member of cluster c
Emissions(c) ==
    Cardinality({k \in DOMAIN verified_reports :
                    verified_reports[k] \in Range(clusters[c])})

TrustedIn(c) ==
    Cardinality({k \in DOMAIN clusters[c] :
                    is_source_trusted(input[clusters[c][k]].source)})

Key(i) == IF input[i].confidence = -1 THEN 0 ELSE input[i].confidence

\* C1: the clusters _create_clusters returns are non-empty, pairwise disjoint, cover
\* the batch, and list their reports in arrival order.
C1_Partition ==
    pc # "create" =>
        /\ \A c \in DOMAIN clusters : clusters[c] # <<>>
        /\ \A c, d \in DOMAIN clusters :
               c # d => Range(clusters[c]) \cap Range(clusters[d]) = {}
        /\ UNION {Range(clusters[c]) : c \in DOMAIN clusters} = DOMAIN input
        /\ \A c \in DOMAIN clusters : \A k \in 1..(Len(clusters[c]) - 1) :
               clusters[c][k] < clusters[c][k + 1]

C1_Witness ==
    /\ pc = "done"
    /\ clusters = <<(<<1, 3>>), (<<2>>)>>

\* the two reports agree on event type and on location and are within the window
StrongPair(a, b) ==
    /\ similarity(a.event_type, b.event_type) >= event_type_similarity_threshold
    /\ similarity(a.location, b.location) >= location_similarity_threshold
    /\ time_within_window(a.timestamp, b.timestamp)

\* C2 as stated: two reports of a batch that agree on event type and location and
\* are within the time window are in the same cluster, whatever the batch.
C2_SameCluster ==
    pc # "create" =>
        \A i, j \in DOMAIN input :
            StrongPair(input[i], input[j]) => ClusterOf(i) = ClusterOf(j)

\* C2 amended: they are in the same cluster when the earlier one is the first
\* report of its cluster and the later one qualifies for no cluster created before
\* that one (so always when the earlier one is the first report of the batch).
C2_SameClusterAsAnchor ==
    pc # "create" =>
        \A i, j \in DOMAIN input :
            ( /\ i < j
              /\ StrongPair(input[i], input[j])
              /\ Anchor(ClusterOf(i)) = i
              /\ \A c \in 1..(ClusterOf(i) - 1) : ~joins(input[j], input[Anchor(c)]) )
            => ClusterOf(j) = ClusterOf(i)

C2_Witness ==
    /\ pc = "done"
    /\ Len(input) = 3
    /\ StrongPair(input[2], input[3])
    /\ ~StrongPair(input[1], input[2])
    /\ input[2] # input[3]
    /\ clusters = <<(<<1>>), (<<2, 3>>)>>

C5_Representative ==
    /\ \A c \in 1..processed :
        /\ Emissions(c) <= 1
        /\ ~(TrustedIn(c) = 0 /\ Len(clusters[c]) < 2) => Emissions(c) = 1
    /\ \A k \in DOMAIN verified_reports :
        LET e == verified_reports[k]
        IN  \A m \in Range(clusters[ClusterOf(e)]) :
                /\ Key(m) <= Key(e)
                /\ Key(m) = Key(e) => e <= m
    /\ \A k, l \in DOMAIN verified_reports :
        k < l => ClusterOf(verified_reports[k]) < ClusterOf(verified_reports[l])

C5_Witness ==
    /\ pc = "done"
    /\ clusters = <<(<<1, 2, 3>>)>>
    /\ input[1].confidence = -1
    /\ input[2].confidence = 90
    /\ input[3].confidence = 90
    /\ verified_reports = <<2>>

\* C6 as stated: an emitted report is flagged "verified" and has a reporter, which
\* is "unknown" if and only if it had none before.
C6_UnknownIffEmpty ==
    \A k \in DOMAIN verified_reports :
        LET i == verified_reports[k]
        IN  /\ reports[i].veracity_flag = STR_verified
            /\ Truthy(reports[i].reporter)
            /\ (reports[i].reporter = STR_unknown) <=> ~Truthy(input[i].reporter)

\* C6 amended: an emitted report is flagged "verified" and has a reporter, which is
\* "unknown" if it had none before and the one it had otherwise.
C6_VerifiedWithReporter ==
    \A k \in DOMAIN verified_reports :
        LET i == verified_reports[k]
        IN  /\ reports[i].veracity_flag = STR_verified
            /\ Truthy(reports[i].reporter)
            /\ reports[i].reporter =
                   IF Truthy(input[i].reporter) THEN input[i].reporter ELSE STR_unknown

C6_Witness ==
    /\ pc = "done"
    /\ Len(verified_reports) = 2
    /\ input[verified_reports[1]].reporter = <<>>
    /\ reports[verified_reports[1]].reporter = STR_unknown
    /\ input[verified_reports[2]].reporter = STR_bob
    /\ reports[verified_reports[2]].reporter = STR_bob

\* C7: the run changes nothing of a report it does not emit, and of a report it
\* emits nothing besides reporter and veracity_flag.
C7_Frame ==
    \A i \in DOMAIN reports :
        IF i \in Range(verified_reports)
        THEN [reports[i] EXCEPT !.reporter = None, !.veracity_flag = None]
                 = [input[i] EXCEPT !.reporter = None, !.veracity_flag = None]
        ELSE reports[i] = input[i]

C7_Witness ==
    /\ pc = "done"
    /\ clusters = <<(<<1, 2>>), (<<3>>)>>
    /\ verified_reports = <<2, 3>>
    /\ reports[2] # input[2]
    /\ ~Truthy(input[1].reporter)

----------------------------------------------------------------------------
(* Properties of GeoCoder *)

BlankText(l) == \A k \in DOMAIN l : IsSpace(l[k])

\* the step is a call of geocode
Called == call'.count # call.count

\* the location is one of the CacheCapacity most recently used ones
StillCached(l) ==
    \E k \in DOMAIN recency : k <= CacheCapacity /\ recency[k] = l

\* C8: two consecutive outbound requests are issued at least 1 second apart.
C8_Spacing ==
    \A k \in 1..(Len(requests) - 1) : requests[k + 1] - requests[k] >= TicksPerSecond

\* C9: a call with an empty or whitespace-only location returns no result, sends
\* nothing, takes no time and leaves last_call_time as it was.
C9_BlankIsFree ==
    [][ (Called /\ BlankText(call'.location)) =>
            /\ call'.result = None
            /\ requests' = requests
            /\ last_call_time' = last_call_time
            /\ clock' = clock ]_vars

C9_Witness ==
    /\ call.location = STR_spaces
    /\ ~call.hit
    /\ call.result = None
    /\ Len(requests) = 2

\* C10: a call with a location that geocode has returned for, and that is still
\* among the cached ones, returns what was returned before, sends nothing and
\* leaves last_call_time as it was.
C10_CachedAnswer ==
    [][ (Called /\ StillCached(call'.location)) =>
            /\ call'.result = returned[call'.location].value
            /\ requests' = requests
            /\ last_call_time' = last_call_time ]_vars

C10_Witness ==
    /\ call.hit
    /\ call.location = STR_Paris
    /\ call.result = None
    /\ returned[STR_Paris].cause = "fail"
    /\ Len(requests) = 2

----------------------------------------------------------------------------
(* Properties of DetecterA.assemble_unified_points *)

\* the pass has resolved all its rows
Assembled == dpc \in {"cluster", "returned"} /\ cursor = Len(tasks)

\* the rows of the pass whose own request failed
FailedRequests ==
    {h \in Range(tasks) : resolution[h].cause = "fail" /\ ~resolution[h].hit}

----------------------------------------------------------------------------
(* Properties of DetecterA.cluster_points *)

\* the points have been clustered and no group is handled yet
Clustered == dpc = "aggregate" /\ cursor = 0

Close(p, q) == haversine_distance(coords_of(p), coords_of(q)) <= 5000

\* a chain of points, each at most 5 km from the next, leads from point i to point j
Chained(i, j) ==
    \E n \in 1..Len(points) : \E path \in [1..n -> DOMAIN points] :
        /\ path[1] = i
        /\ path[n] = j
        /\ \A k \in 1..(n - 1) : Close(points[path[k]], points[path[k + 1]])

GroupsOf(i) == {c \in DOMAIN groups : points[i] \in Range(groups[c])}

\* C12: cluster_points puts every point in exactly one group, and two points in
\* the same group exactly when a chain of points, each at most 5 km from the
\* next, leads from one to the other.
C12_Components ==
    Clustered =>
        /\ \A i \in DOMAIN points : Cardinality(GroupsOf(i)) = 1
        /\ \A c \in DOMAIN groups : groups[c] # <<>> /\ Range(groups[c]) \subseteq Range(points)
        /\ SumSeq([c \in DOMAIN groups |-> Len(groups[c])]) = Len(points)
        /\ \A i, j \in DOMAIN points : (GroupsOf(i) = GroupsOf(j)) <=> Chained(i, j)

\* a group holds two points more than 5 km apart, chained by a third
C12_Witness ==
    /\ Clustered
    /\ \E c \in DOMAIN groups :
           /\ Len(groups[c]) = 3
           /\ \E p, q \in Range(groups[c]) : ~Close(p, q)

----------------------------------------------------------------------------
(* Properties of DetecterA.update_or_create_composite_hotspot *)

\* the distinct report ids among the points of a group
ReportsIn(group) == {hotspots[group[k].payload].report_id : k \in DOMAIN group}

\* the row a handled group was merged into, as it was before
Existing(e) == e.before[e.target]

\* C13: a hotspot made of a group counts the distinct report ids among the points
\* of the group, a report with a human and a disaster point once.
C13_FoundingCount ==
    \A k \in DOMAIN handled :
        handled[k].op = "create" =>
            /\ handled[k].after.contributing_reports_count
                   = Cardinality(ReportsIn(handled[k].group))
            /\ composite_hotspots[handled[k].target].contributing_reports_count
                   >= Cardinality(ReportsIn(handled[k].group))

\* a hotspot was made of the human and the disaster point of one report
C13_Witness ==
    \E k \in DOMAIN handled :
        /\ handled[k].op = "create"
        /\ Len(handled[k].group) = 2
        /\ Cardinality(ReportsIn(handled[k].group)) = 1
        /\ \E p, q \in Range(handled[k].group) : p.type = "human" /\ q.type = "disaster"

\* the group handled by the step, if the step handles one
Handling == Len(handled') = Len(handled) + 1

Handled == handled'[Len(handled')]

\* C14: a merge adds the number of distinct report ids of the group to the count
\* of the hotspot it updates, and no step takes a hotspot away or lowers its count.
C14_MergeCount ==
    [][/\ \A ch \in DOMAIN composite_hotspots :
              /\ ch \in DOMAIN composite_hotspots'
              /\ composite_hotspots'[ch].contributing_reports_count
                     >= composite_hotspots[ch].contributing_reports_count
       /\ Handling /\ Handled.op = "merge" =>
              composite_hotspots'[Handled.target].contributing_reports_count
                  = composite_hotspots[Handled.target].contributing_reports_count
                        + Cardinality(ReportsIn(Handled.group))]_vars

\* a group of the rows of two reports was merged into a hotspot of one report
C14_Witness ==
    \E k \in DOMAIN handled :
        /\ handled[k].op = "merge"
        /\ Cardinality(ReportsIn(handled[k].group)) = 2
        /\ Len(handled[k].group) = 3
        /\ Existing(handled[k]).contributing_reports_count = 1
        /\ composite_hotspots[handled[k].target].contributing_reports_count = 3

Rank(level) ==
    CASE level = "critical" -> 4 [] level = "high" -> 3 [] level = "medium" -> 2
      [] OTHER -> 1

Level(rank) ==
    CASE rank = 4 -> "critical" [] rank = 3 -> "high" [] rank = 2 -> "medium"
      [] OTHER -> "low"

\* the confidence-weighted sum of the scores of an emotion over a group
RECURSIVE BatchSum(_, _)
BatchSum(group, emotion) ==
    IF group = <<>> THEN 0
    ELSE BatchSum(Tail(group), emotion)
         + (IF Head(group).type = "human"
            THEN LET emos == hotspots[Head(group).payload].emotions
                 IN  Head(group).confidence
                         * SumSeq([m \in DOMAIN emos |->
                               IF emos[m].emotion = emotion THEN emos[m].score ELSE 0])
            ELSE 0)

BatchEmotions(group) ==
    UNION {{hotspots[group[k].payload].emotions[m].emotion :
               m \in DOMAIN hotspots[group[k].payload].emotions} :
           k \in {k \in DOMAIN group : group[k].type = "human"}}

\* C15: after a merge, every emotion of the hotspot or of the group has the value
\* (value before * count before + weighted sum of the group) / new count, an emotion
\* missing on one side counting as 0 there.
C15_MergedEmotions ==
    \A k \in DOMAIN handled :
        handled[k].op = "merge" =>
            LET old == Existing(handled[k])
                new == handled[k].after
            IN  \A e \in DOMAIN old.aggregated_emotions \cup BatchEmotions(handled[k].group) :
                    /\ e \in DOMAIN new.aggregated_emotions
                    /\ new.aggregated_emotions[e]
                           = ((IF e \in DOMAIN old.aggregated_emotions
                               THEN old.aggregated_emotions[e] ELSE 0)
                                  * old.contributing_reports_count
                              + BatchSum(handled[k].group, e))
                                 \div new.contributing_reports_count

\* the highest severity among the disaster points of a group, 0 with none
BatchRank(group) ==
    LET ranks == {Rank(hotspots[group[k].payload].severity) :
                     k \in {k \in DOMAIN group : group[k].type = "disaster"}}
    IN  IF ranks = {} THEN 0 ELSE CHOOSE x \in ranks : \A y \in ranks : y <= x

\* C16: after a merge, the severity of the hotspot is the highest of its severity
\* before and the severities of the group, and is never lower than before.
C16_SeverityMax ==
    \A k \in DOMAIN handled :
        handled[k].op = "merge" =>
            /\ Rank(handled[k].after.severity_level)
                   >= Rank(Existing(handled[k]).severity_level)
            /\ handled[k].after.severity_level
                   = Level(Max(Rank(Existing(handled[k]).severity_level),
                               BatchRank(handled[k].group)))

\* the hotspots of a store within 5 km of a point
Near(table, centre) ==
    {ch \in DOMAIN table :
        haversine_distance(<<table[ch].latitude, table[ch].longitude>>, centre) <= 5000}

\* C17: a group whose centroid has a hotspot within 5 km is merged into a hotspot
\* within 5 km of it, and a hotspot is made only of a group whose centroid has
\* none within 5 km.
C17_MergeWhenNear ==
    \A k \in DOMAIN handled :
        /\ handled[k].op = "merge" =>
               handled[k].target \in Near(handled[k].before, handled[k].centroid)
        /\ handled[k].op = "create" =>
               Near(handled[k].before, handled[k].centroid) = {}

----------------------------------------------------------------------------
(* Properties of generate_map_json_with_persistence and detection_scheduler *)

\* the outputs of the groups that were created or merged, in order
Succeeded == SelectSeq(handled, LAMBDA e : e.op # "fail")

C19_OneWay ==
    [][/\ \A k \in DOMAIN hotspots :
              /\ k \in DOMAIN hotspots'
              /\ hotspots[k].status = "aggregated" => hotspots'[k].status = "aggregated"
              /\ hotspots'[k].status \in {hotspots[k].status, "aggregated"}
       /\ tasks' # tasks =>
              \A h \in Range(tasks') : hotspots[h].status = "pending"
       /\ points' # points =>
              \A h \in payloads(points') : hotspots[h].status = "pending"]_vars

\* a later pass is resolving a pending row while a row of an earlier pass is
\* aggregated and not among its tasks
C19_Witness ==
    /\ dpc = "assemble"
    /\ cursor = 1
    /\ \E k \in DOMAIN hotspots :
           /\ hotspots[k].status = "aggregated"
           /\ k \notin Range(tasks)
           /\ k \notin payloads(points)

\* C20: a row is aggregated only if a group holding it was created or merged.
C20_AggregatedIsConsumed ==
    \A k \in DOMAIN hotspots : hotspots[k].status = "aggregated" => k \in consumed

----------------------------------------------------------------------------
(* Properties of update_or_create_composite_hotspot called for several groups *)

\* every call has written
AllDone == ops # <<>> /\ \A o \in DOMAIN ops : ops[o].at = "done"

\* the calls that updated row ch
MergedInto(ch) == {o \in DOMAIN ops : ops[o].existing = ch}

\* the count of row ch before any of the calls: the lowest count a call read
CountBefore(ch) ==
    CHOOSE n \in {ops[o].read[1].contributing_reports_count : o \in MergedInto(ch)} :
        \A o \in MergedInto(ch) : n <= ops[o].read[1].contributing_reports_count

\* C21: when the calls for two groups that match the same hotspot run at the same
\* time, the count of the hotspot ends as its count before both plus the distinct
\* report ids of the one group plus those of the other: no merge is lost.
C21_NoLostMerge ==
    AllDone =>
        \A ch \in DOMAIN composite_hotspots :
            Cardinality(MergedInto(ch)) = 2 =>
                composite_hotspots[ch].contributing_reports_count
                    = CountBefore(ch)
                      + SumSeq([o \in DOMAIN ops |->
                                   IF o \in MergedInto(ch)
                                   THEN Cardinality(ReportsIn(ops[o].group)) ELSE 0])

----------------------------------------------------------------------------
(* Properties of a pass that is cancelled *)

\* C22: when a pass is cancelled between two groups, the rows of the groups it has
\* created or merged are not created or merged again by a later pass: a step that
\* creates or merges a group takes in no row that a group created or merged before
\* held.
C22_ContributesOnce ==
    [][Handling /\ Handled.op # "fail" =>
           payloads(Handled.group) \cap consumed = {}]_vars

----------------------------------------------------------------------------
(* Properties of CheckerA.time_within_window *)

\* the timestamp is one of the instants
Written(t) == \E x \in Instants : t = Instant(x[1], x[2], x[3], x[4])

\* the second of the month of an instant
SecondOf(t) ==
    LET x == CHOOSE x \in Instants : t = Instant(x[1], x[2], x[3], x[4])
    IN  ((x[1] * 24 + x[2]) * 60 + x[3]) * 60 + x[4]

Apart(t1, t2) == Abs(SecondOf(t1) - SecondOf(t2))

\* the second report of the batch has joined the first
SecondJoinedFirst == Len(input) >= 2 /\ ClusterOf(2) = ClusterOf(1)

StrictForm(t) ==
    /\ t # None
    /\ Len(t) = 20
    /\ t[5] = 45 /\ t[8] = 45 /\ t[11] = 84
    /\ t[14] = 58 /\ t[17] = 58 /\ t[20] = 90
    /\ \A k \in {1, 2, 3, 4, 6, 7, 9, 10, 12, 13, 15, 16, 18, 19} : t[k] \in 48..57

\* C24: time_within_window is false when one of the timestamps is absent or not of
\* the form YYYY-MM-DDTHH:MM:SSZ; _create_clusters places every report of a batch
\* with such timestamps, and a report that has an event type and such a timestamp
\* only, or whose first report has, does not join it.
C24_MalformedNeverMatches ==
    pc # "create" =>
        /\ placed = Len(input)
        /\ \A i, j \in DOMAIN input :
               ~StrictForm(input[i].timestamp) \/ ~StrictForm(input[j].timestamp) =>
                   ~time_within_window(input[i].timestamp, input[j].timestamp)
        /\ ( /\ Len(input) >= 2
             /\ ~StrictForm(input[1].timestamp) \/ ~StrictForm(input[2].timestamp) )
           => ~SecondJoinedFirst

----------------------------------------------------------------------------
(* Properties of the values update_or_create_composite_hotspot writes *)

\* the human points of a group
HumansIn(group) == {k \in DOMAIN group : group[k].type = "human"}

\* C25: the average_panic_level of every hotspot of the store, and of every hotspot
\* a group was made or merged into, is within 0 and 1 (10000 ten-thousandths).
C25_PanicInRange ==
    /\ \A ch \in DOMAIN composite_hotspots :
           /\ composite_hotspots[ch].average_panic_level >= 0
           /\ composite_hotspots[ch].average_panic_level <= 10000
    /\ \A k \in DOMAIN handled :
           handled[k].op # "fail" =>
               /\ handled[k].after.average_panic_level >= 0
               /\ handled[k].after.average_panic_level <= 10000

\* a group of two frightened people was merged into a hotspot of panic 0.8, which
\* has it above 0.5 afterwards
C25_Witness ==
    \E k \in DOMAIN handled :
        /\ handled[k].op = "merge"
        /\ Cardinality(HumansIn(handled[k].group)) = 2
        /\ Existing(handled[k]).average_panic_level = 8000
        /\ handled[k].after.average_panic_level > 5000
        /\ composite_hotspots[handled[k].target] = handled[k].after

\* how many disaster points of a group have the risk level
RiskCount(group, level) ==
    Cardinality({k \in DOMAIN group :
                    /\ group[k].type = "disaster"
                    /\ hotspots[group[k].payload].risk_level = level})

\* the risk levels the disaster points of a group have
RisksIn(group) ==
    {hotspots[group[k].payload].risk_level :
        k \in {k \in DOMAIN group : group[k].type = "disaster"}} \ {""}

\* C26: a merge leaves the risk level of the hotspot as it was when the group has no
\* risk level, and changes it only when another risk level occurs in the group
\* strictly more often than the one the hotspot has.
C26_RiskStays ==
    \A k \in DOMAIN handled :
        handled[k].op = "merge" =>
            LET old == Existing(handled[k]).risk_level
                new == handled[k].after.risk_level
            IN  /\ RisksIn(handled[k].group) = {} => new = old
                /\ new # old =>
                       \E l \in RisksIn(handled[k].group) \ {old} :
                           RiskCount(handled[k].group, l)
                               > RiskCount(handled[k].group, old)

----------------------------------------------------------------------------
(* Properties of the join rule of CheckerA._create_clusters *)

\* the fields both reports have
FieldsCompared(a, b) ==
    {f \in {"event_type", "location", "timestamp", "description"} :
        Truthy(a[f]) /\ Truthy(b[f])}

\* those of them that match
FieldsMatched(a, b) ==
    {f \in FieldsCompared(a, b) :
        CASE f = "event_type" ->
                 similarity(a.event_type, b.event_type) >= event_type_similarity_threshold
          [] f = "location" ->
                 similarity(a.location, b.location) >= location_similarity_threshold
          [] f = "timestamp" -> time_within_window(a.timestamp, b.timestamp)
          [] f = "description" ->
                 similarity(a.description, b.description)
                     >= description_similarity_threshold}

Qualifies(a, b) ==
    /\ Cardinality(FieldsCompared(a, b)) > 0
    /\ Cardinality(FieldsMatched(a, b))
           >= Max(2, Cardinality(FieldsCompared(a, b)) \div 2)

AnchorsBefore(i) == {Anchor(c) : c \in DOMAIN clusters} \cap 1..(i - 1)

\* the report was put in a cluster that was there
Joined(i) == Anchor(ClusterOf(i)) # i

\* C28: a report joins a cluster when at least 2 of the compared fields
\* match the first report of the cluster, or when 1 field matches and only 2 fields
\* are compared.
C28_OneOfTwo ==
    pc # "create" =>
        \A i \in DOMAIN input :
            (\E a \in AnchorsBefore(i) :
                 \/ Cardinality(FieldsMatched(input[i], input[a])) >= 2
                 \/ /\ Cardinality(FieldsCompared(input[i], input[a])) = 2
                    /\ Cardinality(FieldsMatched(input[i], input[a])) = 1)
            => Joined(i)

----------------------------------------------------------------------------
(* The hand-over from checker_worker to analyser_worker *)

\* the reports checker_worker accepted whose event analyser_worker was given; an
\* event is read with ">" and so is given once
Accepted == {streams.analyze[k] : k \in 1..delivered.analyze}

\* C29: a report that the checker accepted and published on the analysis stream
\* has, once the classification worker was given its event, human or disaster
\* hotspot rows with status pending
C29_AcceptedIsAnalysed ==
    \A id \in Accepted :
        \E h \in DOMAIN hotspots :
            hotspots[h].report_id = id /\ hotspots[h].status = "pending"

----------------------------------------------------------------------------
(* The composite hotspots of a store that started empty *)

\* C30: after any sequence of passes from an empty store, no two composite
\* hotspots of the store lie within 5 km of each other
C30_HotspotsApart ==
    \A a, b \in DOMAIN composite_hotspots :
        a # b =>
            haversine_distance(
                <<composite_hotspots[a].latitude, composite_hotspots[a].longitude>>,
                <<composite_hotspots[b].latitude, composite_hotspots[b].longitude>>) > 5000

====
